---- MODULE Spec2Model ----
(***************************************************************************)
(* Model of the mermaid preserving renderer content script: the platform   *)
(* detector (detector.ts), the transform engine and observation loop       *)
(* (renderer.ts), over a small explicit DOM.                               *)
(***************************************************************************)
EXTENDS Integers, Sequences, FiniteSets, TLC

(***************************************************************************)
(* Bounds of the model.                                                    *)
(***************************************************************************)
MaxBlocks == 2
MaxRenders == 2
MaxRaf == 2
MaxInject == 1
MaxMarks == 2
MaxLiveBlocks == 1
MaxFragments == 3
MaxPieces == 4
MaxFaults == 1
MaxErrorPieces == 3

None == <<"none", 0>>
Body == <<"body", 0>>
DocHead == <<"head", 0>>

(***************************************************************************)
(* Text: a string is a sequence of one-character strings.                  *)
(***************************************************************************)
Whitespace == {" ", "\n", "\t"}

RECURSIVE TrimStart(_)
TrimStart(s) ==
  IF s = <<>> THEN <<>>
  ELSE IF Head(s) \in Whitespace THEN TrimStart(Tail(s)) ELSE s

RECURSIVE TrimEnd(_)
TrimEnd(s) ==
  IF s = <<>> THEN <<>>
  ELSE IF s[Len(s)] \in Whitespace THEN TrimEnd(SubSeq(s, 1, Len(s) - 1)) ELSE s

\* String.prototype.trim
Trim(s) == TrimEnd(TrimStart(s))

Upper == <<"A", "B", "C", "D", "E", "F", "G", "H", "I", "J", "K", "L", "M", "N", "O", "P", "Q", "R", "S", "T", "U", "V", "W", "X", "Y", "Z">>
Lower == <<"a", "b", "c", "d", "e", "f", "g", "h", "i", "j", "k", "l", "m", "n", "o", "p", "q", "r", "s", "t", "u", "v", "w", "x", "y", "z">>

LowerChar(c) ==
  IF \E i \in 1..Len(Upper) : Upper[i] = c
  THEN Lower[CHOOSE i \in 1..Len(Upper) : Upper[i] = c]
  ELSE c

\* String.prototype.toLowerCase
ToLowerCase(s) == [i \in 1..Len(s) |-> LowerChar(s[i])]

RECURSIVE FirstWord(_)
\* content.split(/[\s\n]/)[0]
FirstWord(s) ==
  IF s = <<>> THEN <<>>
  ELSE IF Head(s) \in Whitespace THEN <<>>
  ELSE <<Head(s)>> \o FirstWord(Tail(s))

MERMAID_KEYWORDS ==
  { <<"g", "r", "a", "p", "h">>,
    <<"f", "l", "o", "w", "c", "h", "a", "r", "t">>,
    <<"s", "e", "q", "u", "e", "n", "c", "e", "d", "i", "a", "g", "r", "a", "m">>,
    <<"c", "l", "a", "s", "s", "d", "i", "a", "g", "r", "a", "m">>,
    <<"s", "t", "a", "t", "e", "d", "i", "a", "g", "r", "a", "m">>,
    <<"s", "t", "a", "t", "e", "d", "i", "a", "g", "r", "a", "m", "-", "v", "2">>,
    <<"e", "r", "d", "i", "a", "g", "r", "a", "m">>,
    <<"j", "o", "u", "r", "n", "e", "y">>,
    <<"g", "a", "n", "t", "t">>,
    <<"p", "i", "e">>,
    <<"q", "u", "a", "d", "r", "a", "n", "t", "c", "h", "a", "r", "t">>,
    <<"r", "e", "q", "u", "i", "r", "e", "m", "e", "n", "t", "d", "i", "a", "g", "r", "a", "m">>,
    <<"g", "i", "t", "g", "r", "a", "p", "h">>,
    <<"m", "i", "n", "d", "m", "a", "p">>,
    <<"t", "i", "m", "e", "l", "i", "n", "e">>,
    <<"z", "e", "n", "u", "m", "l">>,
    <<"s", "a", "n", "k", "e", "y", "-", "b", "e", "t", "a">>,
    <<"x", "y", "c", "h", "a", "r", "t", "-", "b", "e", "t", "a">>,
    <<"b", "l", "o", "c", "k", "-", "b", "e", "t", "a">> }

\* a classifier that does not trim the text
isMermaidContent_NoTrim(content) ==
  LET trimmed == ToLowerCase(content)
      firstWord == FirstWord(trimmed)
  IN firstWord \in MERMAID_KEYWORDS

isMermaidContent(content) ==
  LET trimmed == ToLowerCase(Trim(content))
      firstWord == FirstWord(trimmed)
  IN firstWord \in MERMAID_KEYWORDS

MermaidWord == <<"m", "e", "r", "m", "a", "i", "d">>

(***************************************************************************)
(* The DOM: a function from the nodes created so far to element records.   *)
(* A node is named by what created it: <<"pre", b>> and <<"code", b>> are  *)
(* the host page's b-th code block, <<"container", r>> is the container    *)
(* built by the render that drew RenderId r, and so on.                    *)
(***************************************************************************)
NoHtml == <<>>

El(tag, cls, attrs, text) ==
  [tag |-> tag, cls |-> cls, attrs |-> attrs, id |-> <<>>, text |-> text,
   html |-> NoHtml, display |-> "", title |-> "", parent |-> None, kids |-> <<>>]

RECURSIVE IsAttached(_, _)
\* Node.isConnected
IsAttached(d, n) ==
  IF n = Body \/ n = DocHead THEN TRUE
  ELSE IF n \notin DOMAIN d THEN FALSE
  ELSE IF d[n].parent = None THEN FALSE
  ELSE IsAttached(d, d[n].parent)

RECURSIVE HasAncestorTag(_, _, _)
\* some proper ancestor of n has the tag (a descendant combinator)
HasAncestorTag(d, n, tag) ==
  IF d[n].parent = None THEN FALSE
  ELSE IF d[d[n].parent].tag = tag THEN TRUE
  ELSE HasAncestorTag(d, d[n].parent, tag)

RECURSIVE HasAncestorAttr(_, _, _)
\* some proper ancestor of n carries the attribute (a descendant combinator)
HasAncestorAttr(d, n, attr) ==
  IF d[n].parent = None THEN FALSE
  ELSE IF attr \in d[d[n].parent].attrs THEN TRUE
  ELSE HasAncestorAttr(d, d[n].parent, attr)

ProcessedAttr == <<"data-mpr-processed", "true">>

\* Element.hasAttribute
hasAttribute(d, n, name) == \E a \in d[n].attrs : a[1] = name

ProcessedSelector == "[data-mpr-processed=\"true\"]"

\* the value of selectors.previewButton of the grok platform
PreviewButtonSelector == "<previewButton>"

\* Element.matches for the selectors the program uses
Matches(d, n, sel) ==
  CASE sel = "pre code.language-mermaid" ->
         d[n].tag = "code" /\ "language-mermaid" \in d[n].cls /\ HasAncestorTag(d, n, "pre")
    [] sel = "code[data-test-id='code-content']" ->
         d[n].tag = "code" /\ <<"data-test-id", "code-content">> \in d[n].attrs
    [] sel = "[data-testid='code-block'] pre code" ->
         d[n].tag = "code" /\ HasAncestorTag(d, n, "pre")
           /\ HasAncestorAttr(d, n, <<"data-testid", "code-block">>)
    [] sel = "[data-testid='code-block']" -> <<"data-testid", "code-block">> \in d[n].attrs
    [] sel = "pre" -> d[n].tag = "pre"
    [] sel = "pre code" -> d[n].tag = "code" /\ HasAncestorTag(d, n, "pre")
    [] sel = ".text-secondary" -> "text-secondary" \in d[n].cls
    [] sel = ".shiki" -> "shiki" \in d[n].cls
    [] sel = ".mpr-rendered" -> "mpr-rendered" \in d[n].cls
    [] sel = PreviewButtonSelector -> <<"role", "preview-button">> \in d[n].attrs
    [] sel = ProcessedSelector -> ProcessedAttr \in d[n].attrs
    [] OTHER -> FALSE

\* a closest that looks at the element only, not at its ancestors
Closest_SelfOnly(d, n, sel) == IF Matches(d, n, sel) THEN n ELSE None

RECURSIVE Closest(_, _, _)
\* Element.closest: the element itself or its nearest ancestor that matches
Closest(d, n, sel) ==
  IF Matches(d, n, sel) THEN n
  ELSE IF d[n].parent = None THEN None
  ELSE Closest(d, d[n].parent, sel)

RECURSIVE Preorder(_, _)
RECURSIVE PreorderAll(_, _)
\* the subtree of n in document order
Preorder(d, n) == <<n>> \o PreorderAll(d, d[n].kids)
PreorderAll(d, ks) ==
  IF ks = <<>> THEN <<>> ELSE Preorder(d, Head(ks)) \o PreorderAll(d, Tail(ks))

SeqFilter(s, keep) ==
  LET RECURSIVE F(_)
      F(t) == IF t = <<>> THEN <<>>
              ELSE IF Head(t) \in keep THEN <<Head(t)>> \o F(Tail(t)) ELSE F(Tail(t))
  IN F(s)

Range(s) == {s[i] : i \in 1..Len(s)}

\* root.querySelectorAll(sel): the matching descendants of root, in document order
QueryAll(d, root, sel) ==
  LET desc == PreorderAll(d, d[root].kids)
  IN SeqFilter(desc, {n \in Range(desc) : Matches(d, n, sel)})

\* document.querySelectorAll(sel)
querySelectorAll(d, sel) == QueryAll(d, Body, sel)

\* root.querySelector(sel): the first match or null
querySelector(d, root, sel) ==
  LET all == QueryAll(d, root, sel) IN IF all = <<>> THEN None ELSE Head(all)

\* Node.textContent: the text of the subtree, concatenated in document order
textContent(d, n) ==
  LET sub == Preorder(d, n)
      RECURSIVE Cat(_)
      Cat(t) == IF t = <<>> THEN <<>> ELSE d[Head(t)].text \o Cat(Tail(t))
  IN Cat(sub)

IndexOf(s, x) == CHOOSE i \in 1..Len(s) : s[i] = x

\* ChildNode.remove: no effect on a node without a parent
Remove(d, n) ==
  IF d[n].parent = None THEN d
  ELSE LET p == d[n].parent
       IN [d EXCEPT ![p].kids = SeqFilter(@, Range(@) \ {n}), ![n].parent = None]

\* Node.appendChild of a node that has no parent yet
AppendChild(d, p, c) ==
  [d EXCEPT ![p].kids = Append(@, c), ![c].parent = p]

\* Node.insertBefore(new, ref.nextSibling): new becomes the sibling right after ref
InsertAfter(d, ref, new) ==
  LET p == d[ref].parent
      i == IndexOf(d[p].kids, ref)
  IN [d EXCEPT ![p].kids = SubSeq(@, 1, i) \o <<new>> \o SubSeq(@, i + 1, Len(@)),
               ![new].parent = p]

\* a replaceWith that puts the new node at the end of the body when the old
\* node has no parent
ReplaceWith_Always(d, old, new) ==
  IF d[old].parent = None THEN AppendChild(d, Body, new)
  ELSE LET p == d[old].parent
       IN [d EXCEPT ![p].kids = [i \in 1..Len(@) |-> IF @[i] = old THEN new ELSE @[i]],
                    ![new].parent = p,
                    ![old].parent = None]

\* ChildNode.replaceWith: no effect when the node has no parent
ReplaceWith(d, old, new) ==
  IF d[old].parent = None THEN d
  ELSE LET p == d[old].parent
       IN [d EXCEPT ![p].kids = [i \in 1..Len(@) |-> IF @[i] = old THEN new ELSE @[i]],
                    ![new].parent = p,
                    ![old].parent = None]

\* the DOM d extended with the new, parentless nodes of the function fresh
WithNodes(d, fresh) ==
  [n \in DOMAIN d \cup DOMAIN fresh |-> IF n \in DOMAIN fresh THEN fresh[n] ELSE d[n]]

(***************************************************************************)
(* Platform registry (config/selectors.json as read by detector.ts).       *)
(***************************************************************************)
Platform == {"chatgpt", "claude", "gemini", "grok"}

selectors ==
  [chatgpt |-> [hostname |-> <<"c", "h", "a", "t", "g", "p", "t", ".", "c", "o", "m">>,
                 codeBlock |-> "pre code.language-mermaid",
                wrapper |-> "pre", detection |-> "className"],
   claude  |-> [hostname |-> <<"c", "l", "a", "u", "d", "e", ".", "a", "i">>,
                 codeBlock |-> "pre code.language-mermaid",
                wrapper |-> "pre", detection |-> "className"],
   gemini  |-> [hostname |-> <<"g", "e", "m", "i", "n", "i", ".", "g", "o", "o", "g", "l", "e", ".", "c", "o", "m">>,
                 codeBlock |-> "code[data-test-id='code-content']",
                wrapper |-> "pre", detection |-> "contentBased"],
   grok    |-> [hostname |-> <<"g", "r", "o", "k", ".", "c", "o", "m">>,
                 codeBlock |-> "[data-testid='code-block'] pre code",
                wrapper |-> "[data-testid='code-block']", detection |-> "languageLabel"]]

getPlatformConfig(platform) ==
  LET config == selectors[platform]
  IN [platform |-> platform,
      codeBlockSelector |-> config.codeBlock,
      wrapperSelector |-> config.wrapper,
      detection |-> config.detection,
      languageLabelSelector |-> IF config.detection = "languageLabel" THEN ".text-secondary" ELSE "",
      previewButtonSelector |-> IF config.detection = "languageLabel" THEN PreviewButtonSelector ELSE ""]

\* String.prototype.includes
Includes(s, sub) ==
  \E i \in 0..(Len(s) - Len(sub)) : SubSeq(s, i + 1, i + Len(sub)) = sub

\* the keys of selectors.platforms in the order Object.entries yields them
PlatformKeys == <<"chatgpt", "claude", "gemini", "grok">>

\* what detectPlatform returns when no entry matches
Null == "null"

RECURSIVE FirstExact(_, _)
FirstExact(keys, h) ==
  IF keys = <<>> THEN Null
  ELSE IF h = selectors[Head(keys)].hostname THEN Head(keys)
  ELSE FirstExact(Tail(keys), h)

\* a detector that compares the hostname for equality
detectPlatform_Exact(h) == FirstExact(PlatformKeys, h)

RECURSIVE FirstIncluded(_, _)
\* for (const [key, config] of ...) if (hostname.includes(config.hostname)) return key
FirstIncluded(keys, h) ==
  IF keys = <<>> THEN Null
  ELSE IF Includes(h, selectors[Head(keys)].hostname) THEN Head(keys)
  ELSE FirstIncluded(Tail(keys), h)

detectPlatform(h) == FirstIncluded(PlatformKeys, h)

\* the value of config while initRenderer has not been called
NoConfig ==
  [platform |-> Null, codeBlockSelector |-> "", wrapperSelector |-> "", detection |-> "",
   languageLabelSelector |-> "", previewButtonSelector |-> ""]

\* how many clicks in a row the round trip of a toggle is followed for
MaxClicks == 3

(***************************************************************************)
(* Block detector.                                                         *)
(***************************************************************************)
\* the filter of the className strategy
KeepClassName(d, el) == Closest(d, el, ProcessedSelector) = None

\* the filter of the contentBased strategy
KeepContentBased(d, el) ==
  IF Closest(d, el, ProcessedSelector) # None THEN FALSE
  ELSE isMermaidContent(textContent(d, el))

\* a languageLabel filter that falls back on the text of the code
KeepLanguageLabel_OrContent(d, wrapper, config) ==
  IF hasAttribute(d, wrapper, "data-mpr-processed") THEN FALSE
  ELSE IF Closest(d, wrapper, ProcessedSelector) # None THEN FALSE
  ELSE LET labelEl == querySelector(d, wrapper, config.languageLabelSelector)
       IN \/ labelEl # None /\ ToLowerCase(Trim(textContent(d, labelEl))) = MermaidWord
          \/ isMermaidContent(textContent(d, wrapper))

\* the filter of the languageLabel strategy
KeepLanguageLabel(d, wrapper, config) ==
  IF hasAttribute(d, wrapper, "data-mpr-processed") THEN FALSE
  ELSE IF Closest(d, wrapper, ProcessedSelector) # None THEN FALSE
  ELSE LET labelEl == querySelector(d, wrapper, config.languageLabelSelector)
       IN labelEl # None /\ ToLowerCase(Trim(textContent(d, labelEl))) = MermaidWord

\* a detector that returns what it found last in first
findUnprocessedMermaidBlocks_Reversed(d, config) ==
  LET sel == IF config.detection = "languageLabel" THEN config.wrapperSelector
             ELSE config.codeBlockSelector
      all == querySelectorAll(d, sel)
      kept == SeqFilter(all, {el \in Range(all) :
                 IF config.detection = "className" THEN KeepClassName(d, el)
                 ELSE IF config.detection = "contentBased" THEN KeepContentBased(d, el)
                 ELSE KeepLanguageLabel(d, el, config)})
  IN [i \in 1..Len(kept) |-> kept[Len(kept) + 1 - i]]

findUnprocessedMermaidBlocks(d, config) ==
  IF config.detection = "className" THEN
    LET blocks == querySelectorAll(d, config.codeBlockSelector)
    IN SeqFilter(blocks, {el \in Range(blocks) : KeepClassName(d, el)})
  ELSE IF config.detection = "contentBased" THEN
    LET allBlocks == querySelectorAll(d, config.codeBlockSelector)
    IN SeqFilter(allBlocks, {el \in Range(allBlocks) : KeepContentBased(d, el)})
  ELSE IF config.detection = "languageLabel" THEN
    LET allWrappers == querySelectorAll(d, config.wrapperSelector)
    IN SeqFilter(allWrappers, {w \in Range(allWrappers) : KeepLanguageLabel(d, w, config)})
  ELSE <<>>

\* a detector that marks the elements it returns
DetectorCall_Marks(d, config) ==
  LET blocks == findUnprocessedMermaidBlocks(d, config)
  IN [dom |-> [n \in DOMAIN d |->
                 IF n \in Range(blocks) THEN [d[n] EXCEPT !.attrs = @ \cup {ProcessedAttr}]
                 ELSE d[n]],
      blocks |-> blocks]

\* a call of findUnprocessedMermaidBlocks(config) on the document d: the
\* document it leaves (it only queries and reads) and the array it returns
DetectorCall(d, config) ==
  [dom |-> d, blocks |-> findUnprocessedMermaidBlocks(d, config)]

(***************************************************************************)
(* Renderer: ids and error cleanup.                                        *)
(***************************************************************************)
RECURSIVE Digits(_)
\* the decimal digits of a natural number
Digits(n) ==
  LET ch == <<"0", "1", "2", "3", "4", "5", "6", "7", "8", "9">>
  IN IF n < 10 THEN <<ch[n + 1]>> ELSE Digits(n \div 10) \o <<ch[(n % 10) + 1]>>

\* `mpr-diagram-${n}`
UniqueId(n) == <<"mpr-diagram-">> \o Digits(n)

IsPrefix(p, s) == Len(p) <= Len(s) /\ SubSeq(s, 1, Len(p)) = p

\* an id selector #x is a syntax error when x starts with a digit
ValidIdSelector(x) == x # <<>> /\ x[1] \notin {"0", "1", "2", "3", "4", "5", "6", "7", "8", "9"}

\* the elements of the document an error selector of the cleanup matches
ErrorSelectorMatches(d, sel) ==
  LET doc == PreorderAll(d, d[Body].kids)
      hit(n) ==
        CASE sel[1] = "#" -> d[n].id = sel[2]
          [] sel[1] = "[id^=]" -> d[n].id # <<>> /\ IsPrefix(sel[2], d[n].id)
          [] sel[1] = "svg[aria-roledescription=error]#" ->
               d[n].tag = "svg" /\ <<"aria-roledescription", "error">> \in d[n].attrs
                 /\ d[n].id = sel[2]
  IN IF sel[1] # "[id^=]" /\ ~ValidIdSelector(sel[2]) THEN <<>>
     ELSE SeqFilter(doc, {n \in Range(doc) : hit(n)})

\* a loop that removes the first match only
RemoveEach_FirstOnly(d, els) == IF els = <<>> THEN d ELSE Remove(d, Head(els))

RECURSIVE RemoveEach(_, _)
\* elements.forEach((el) => el.remove())
RemoveEach(d, els) ==
  IF els = <<>> THEN d ELSE RemoveEach(Remove(d, Head(els)), Tail(els))

\* the selector matches the root of a diagram's markup whose id is id (the
\* markup of a rendered diagram is no error svg)
MarkupMatches(sel, id) ==
  CASE sel[1] = "#" -> ValidIdSelector(sel[2]) /\ id = sel[2]
    [] sel[1] = "[id^=]" -> IsPrefix(sel[2], id)
    [] sel[1] = "svg[aria-roledescription=error]#" -> FALSE

\* el.remove() on the svg elements that stand in the document as the markup
\* of an element (innerHTML of a display region)
RemoveMarkup(d, sel) ==
  LET hits == {n \in DOMAIN d : /\ d[n].html # NoHtml
                                /\ d[n].html[1] = "svg"
                                /\ MarkupMatches(sel, d[n].html[2])
                                /\ IsAttached(d, n)}
  IN IF hits = {} THEN d
     ELSE [n \in DOMAIN d |-> IF n \in hits THEN [d[n] EXCEPT !.html = NoHtml] ELSE d[n]]

RECURSIVE CleanupSelectors(_, _)
CleanupSelectors(d, sels) ==
  IF sels = <<>> THEN d
  ELSE CleanupSelectors(RemoveMarkup(RemoveEach(d, ErrorSelectorMatches(d, Head(sels))),
                                     Head(sels)),
                        Tail(sels))

\* a cleanup that removes every element whose id begins as a render id does
cleanupMermaidErrorElements_EveryDiagram(d, renderId) ==
  CleanupSelectors(d, << <<"[id^=]", <<"mpr-diagram-">> >> >>)

cleanupMermaidErrorElements(d, renderId) ==
  LET errorSelectors ==
        << <<"#", <<"d">> \o renderId>>,
           <<"#", renderId>>,
           <<"[id^=]", <<"d">> \o renderId>>,
           <<"svg[aria-roledescription=error]#", renderId>> >>
  IN CleanupSelectors(d, errorSelectors)

(***************************************************************************)
(* Renderer: the artifact.                                                 *)
(***************************************************************************)
Container(r) == <<"container", r>>
SourceWrapper(r) == <<"sourceWrapper", r>>
SourceCodeEl(r) == <<"sourceCodeEl", r>>
RenderedDiv(r) == <<"renderedDiv", r>>
ToggleBtn(r) == <<"toggleBtn", r>>
ErrorEl(r) == <<"errorEl", r>>

\* the nodes createPreservingWrapper builds for the render that holds id r
createPreservingWrapper(d, r, sourceCode) ==
  LET fresh ==
        (Container(r) :> [El("div", {"mpr-container"}, {ProcessedAttr}, <<>>)
                            EXCEPT !.kids = <<SourceWrapper(r), RenderedDiv(r)>>])
        @@ (SourceWrapper(r) :> [El("pre", {"mpr-source"}, {}, <<>>)
                            EXCEPT !.display = "none", !.parent = Container(r),
                                   !.kids = <<SourceCodeEl(r)>>])
        @@ (SourceCodeEl(r) :> [El("code", {"language-mermaid"}, {}, sourceCode)
                            EXCEPT !.parent = SourceWrapper(r)])
        @@ (RenderedDiv(r) :> [El("div", {"mpr-rendered"}, {}, <<>>)
                            EXCEPT !.parent = Container(r)])
  IN WithNodes(d, fresh)

\* an extraction that forgets to trim
extractSourceCode_NoTrim(d, element, config) ==
  IF config.platform = "grok" THEN
    LET codeEl == querySelector(d, element, "pre code")
    IN IF codeEl = None THEN <<>> ELSE textContent(d, codeEl)
  ELSE textContent(d, element)

extractSourceCode(d, element, config) ==
  IF config.platform = "grok" THEN
    LET codeEl == querySelector(d, element, "pre code")
    IN IF codeEl = None THEN <<>> ELSE Trim(textContent(d, codeEl))
  ELSE Trim(textContent(d, element))

\* a commit target that is the candidate on every platform
getWrapperToReplace_Self(d, element, config) == element

getWrapperToReplace(d, element, config) ==
  IF config.platform = "grok" THEN element
  ELSE IF d[element].parent # None THEN d[element].parent ELSE element

\* a toggle that ignores initialShowSource
createToggleButton_IgnoresInitial(d, r, sourceEl, renderedEl, initialShowSource) ==
  WithNodes(d, ToggleBtn(r) :>
    [El("button", {"mpr-toggle"},
        {<<"aria-label", "Toggle between source code and diagram">>}, <<>>)
       EXCEPT !.html = <<"{ }">>, !.title = "Show source code"])

\* the button createToggleButton builds, and the initial display it sets
createToggleButton(d, r, sourceEl, renderedEl, initialShowSource) ==
  LET button == El("button", {"mpr-toggle"},
                   {<<"aria-label", "Toggle between source code and diagram">>}, <<>>)
      withBtn == WithNodes(d, ToggleBtn(r) :>
                   [button EXCEPT !.html = IF initialShowSource THEN <<"play">> ELSE <<"{ }">>,
                                  !.title = IF initialShowSource THEN "Show diagram"
                                            ELSE "Show source code"])
  IN IF initialShowSource
     THEN [withBtn EXCEPT ![sourceEl].display = "block", ![renderedEl].display = "block"]
     ELSE withBtn

\* no exception was caught
NoError == <<"none", <<>>>>

\* a thrown value is <<kind, text>>: an Error with its message, a string, null,
\* undefined, or another value with the text String() gives it
ErrorOf(message) == <<"Error", message>>

\* errorToString
errorToString(error) ==
  IF error[1] = "Error" THEN error[2]
  ELSE IF error[1] = "null" THEN <<"n", "u", "l", "l">>
  ELSE IF error[1] = "undefined" THEN <<"u", "n", "d", "e", "f", "i", "n", "e", "d">>
  ELSE error[2]

DigitChars == {"0", "1", "2", "3", "4", "5", "6", "7", "8", "9"}

\* ERROR_PATTERNS: the phrase of each pattern (matched with the i flag), whether
\* (\d+) follows it, and the details text
ERROR_PATTERNS ==
  << [phrase |-> <<"P", "a", "r", "s", "e", " ", "e", "r", "r", "o", "r", " ", "o", "n", " ", "l", "i", "n", "e", " ">>,
      digits |-> TRUE,
      details |-> <<"S", "y", "n", "t", "a", "x", " ", "e", "r", "r", "o", "r", " ", "o", "n", " ", "l", "i", "n", "e", " ">>],
     [phrase |-> <<"U", "n", "k", "n", "o", "w", "n", " ", "d", "i", "a", "g", "r", "a", "m", " ", "t", "y", "p", "e">>,
      digits |-> FALSE,
      details |-> <<"U", "n", "s", "u", "p", "p", "o", "r", "t", "e", "d", " ", "d", "i", "a", "g", "r", "a", "m", " ", "t", "y", "p", "e">>],
     [phrase |-> <<"S", "y", "n", "t", "a", "x", " ", "e", "r", "r", "o", "r", " ", "i", "n", " ", "t", "e", "x", "t">>,
      digits |-> FALSE,
      details |-> <<"S", "y", "n", "t", "a", "x", " ", "e", "r", "r", "o", "r", " ", "i", "n", " ", "d", "i", "a", "g", "r", "a", "m">>] >>

\* the pattern matches s at position i
MatchesAt(s, i, pattern) ==
  LET n == Len(pattern.phrase)
  IN /\ i + n - 1 <= Len(s)
     /\ ToLowerCase(SubSeq(s, i, i + n - 1)) = ToLowerCase(pattern.phrase)
     /\ pattern.digits => (i + n <= Len(s) /\ s[i + n] \in DigitChars)

\* the positions String.prototype.match may find the pattern at
MatchPositions(s, pattern) == {i \in 1..Len(s) : MatchesAt(s, i, pattern)}

RECURSIVE DigitRun(_, _)
\* the digits (\d+) captures from position i on
DigitRun(s, i) ==
  IF i > Len(s) \/ s[i] \notin DigitChars THEN <<>> ELSE <<s[i]>> \o DigitRun(s, i + 1)

\* typeof details === 'function' ? details(match) : details
DetailsOf(s, pattern) ==
  IF pattern.digits
  THEN LET i == CHOOSE p \in MatchPositions(s, pattern) :
                   \A q \in MatchPositions(s, pattern) : p <= q
       IN pattern.details \o DigitRun(s, i + Len(pattern.phrase))
  ELSE pattern.details

\* a ParsedError without details
NoDetails == <<"<no details>">>

UserMessage == <<"F", "a", "i", "l", "e", "d", " ", "t", "o", " ", "r", "e", "n", "d", "e", "r", " ", "d", "i", "a", "g", "r", "a", "m">>

RECURSIVE LastPattern(_, _)
LastPattern(s, patterns) ==
  IF patterns = <<>> THEN NoDetails
  ELSE LET p == patterns[Len(patterns)]
       IN IF MatchPositions(s, p) # {} THEN DetailsOf(s, p)
          ELSE LastPattern(s, SubSeq(patterns, 1, Len(patterns) - 1))

\* a parser that takes the last pattern of the list that matches
parseErrorMessage_LastMatch(error) ==
  LET originalError == errorToString(error)
  IN [userMessage |-> UserMessage,
      details |-> LastPattern(originalError, ERROR_PATTERNS),
      originalError |-> originalError]

RECURSIVE FirstPattern(_, _)
\* for (const { pattern, details } of ERROR_PATTERNS): the first match returns
FirstPattern(s, patterns) ==
  IF patterns = <<>> THEN NoDetails
  ELSE IF MatchPositions(s, Head(patterns)) # {} THEN DetailsOf(s, Head(patterns))
  ELSE FirstPattern(s, Tail(patterns))

parseErrorMessage(error) ==
  LET originalError == errorToString(error)
  IN [userMessage |-> UserMessage,
      details |-> FirstPattern(originalError, ERROR_PATTERNS),
      originalError |-> originalError]

\* the text of div.mpr-error-hint
ErrorHint == <<"C", "h", "e", "c", "k", " ", "t", "h", "e", " ", "s", "o", "u", "r", "c", "e", " ", "c", "o", "d", "e", " ", "b", "e", "l", "o", "w">>

\* createErrorElement: the div.mpr-error with its title, its details (hidden
\* when the parsed error has none) and its hint
createErrorElement(d, r, parsedError) ==
  WithNodes(d, ErrorEl(r) :>
    [El("div", {"mpr-error"}, {}, <<>>)
       EXCEPT !.html = <<"error", parsedError.userMessage, parsedError.details, ErrorHint>>])

\* the markup mermaid.render resolves to for (id, code)
Svg(id, code) == <<"svg", id, code>>

(***************************************************************************)
(* State.                                                                  *)
(***************************************************************************)
VARIABLES
  dom,             \* the nodes created so far; the document is the subtree of Body
  config,          \* the PlatformConfig initRenderer was called with
  started,         \* initRenderer has run
  observing,       \* the MutationObserver is subscribed
  renderCounter,   \* let renderCounter
  tasks,           \* the calls of renderMermaidBlock that reached mermaid.render, by id
  timers,          \* ids whose setTimeout(cleanup, 0) is pending
  rafQueue,        \* callbacks requested for the next animation frame
  frameBatch,      \* callbacks of the running frame that have not run yet
  hostname,        \* window.location.hostname
  mainPlatform,    \* const platform of main (its value once detectPlatform returned)
  mainPc,          \* where main is
  errorLog         \* the candidates console.error('[MPR] Render error:') was called for

vars == <<dom, config, started, observing, renderCounter, tasks, timers,
          rafQueue, frameBatch, hostname, mainPlatform, mainPc, errorLog>>

(***************************************************************************)
(* The host page.                                                          *)
(***************************************************************************)
\* what the host page puts in a code block: its text, the language class
\* (className platforms) and the text of its language label (grok)
BlockKinds ==
  { [text |-> <<" ", "\n">>, lang |-> "language-mermaid", label |-> MermaidWord],
    [text |-> <<" ", "P", "i", "e", " ", "x", "\n">>, lang |-> "language-mermaid",
     label |-> <<" ", "M", "e", "r", "m", "a", "i", "d", "\n">>],
    [text |-> <<"x", "=", "1">>, lang |-> "language-javascript", label |-> <<"j", "s">>] }

HostPre(b) == <<"pre", b>>
HostCode(b) == <<"code", b>>
HostWrapper(b) == <<"wrapper", b>>
HostLabel(b) == <<"label", b>>
HostButton(b) == <<"button", b>>

\* the nodes of the b-th code block of the page, as the platform lays it out
HostBlock(platform, b, text, lang, label) ==
  IF platform = "grok" THEN
    (HostWrapper(b) :> [El("div", {}, {<<"data-testid", "code-block">>}, <<>>)
                          EXCEPT !.kids = <<HostLabel(b), HostButton(b), HostPre(b)>>])
    @@ (HostLabel(b) :> [El("span", {"text-secondary"}, {}, label)
                          EXCEPT !.parent = HostWrapper(b)])
    @@ (HostButton(b) :> [El("button", {}, {<<"role", "preview-button">>}, <<>>)
                          EXCEPT !.parent = HostWrapper(b)])
    @@ (HostPre(b) :> [El("pre", {"shiki"}, {}, <<>>)
                          EXCEPT !.parent = HostWrapper(b), !.kids = <<HostCode(b)>>])
    @@ (HostCode(b) :> [El("code", {}, {}, text) EXCEPT !.parent = HostPre(b)])
  ELSE
    (HostPre(b) :> [El("pre", {}, {}, <<>>) EXCEPT !.kids = <<HostCode(b)>>])
    @@ (HostCode(b) :>
          [El("code",
              IF platform = "gemini" THEN {} ELSE {lang},
              IF platform = "gemini" THEN {<<"data-test-id", "code-content">>} ELSE {},
              text)
             EXCEPT !.parent = HostPre(b)])

HostRoot(platform, b) == IF platform = "grok" THEN HostWrapper(b) ELSE HostPre(b)

NumBlocks == Cardinality({n \in DOMAIN dom : n[1] = "code"})

\* a childList mutation of the observed subtree happened between d and e
Mutated(d, e) == Preorder(d, Body) # Preorder(e, Body)

\* an observer whose callback schedules nothing
Requested_Never(d, e) == rafQueue

\* the observer callback: one requestAnimationFrame per delivered batch
Requested(d, e) == IF observing /\ Mutated(d, e) THEN rafQueue + 1 ELSE rafQueue

Init ==
  /\ dom = (Body :> El("body", {}, {}, <<>>))
  /\ config \in {getPlatformConfig(p) : p \in Platform}
  /\ started = FALSE
  /\ observing = FALSE
  /\ renderCounter = 0
  /\ tasks = <<>>
  /\ timers = {}
  /\ rafQueue = 0
  /\ frameBatch = 0
  /\ hostname = selectors[config.platform].hostname
  /\ mainPlatform = config.platform
  /\ mainPc = "initRenderer"
  /\ errorLog = <<>>

\* the host page appends a code block laid out as platform p does
HostInsertAs(p) ==
  /\ frameBatch = 0
  /\ NumBlocks < MaxBlocks
  /\ \E k \in BlockKinds :
       LET b == NumBlocks + 1
           e == AppendChild(WithNodes(dom, HostBlock(p, b, k.text, k.lang, k.label)),
                            Body, HostRoot(p, b))
       IN /\ Requested(dom, e) <= MaxRaf
          /\ dom' = e
          /\ rafQueue' = Requested(dom, e)
  /\ UNCHANGED <<errorLog, hostname, mainPlatform, mainPc, config, started, observing, renderCounter, tasks, timers,
                 frameBatch>>

\* the host page appends a code block to the document
HostInsertBlock == HostInsertAs(config.platform)

(***************************************************************************)
(* Transform engine.                                                       *)
(***************************************************************************)
\* the task record of a render dispatched by a sweep
SweepTask(acc, element, r, sourceCode) ==
  [fn |-> "renderMermaidBlock", via |-> acc.via, batch |-> acc.batch, element |-> element,
   uniqueId |-> UniqueId(r), sourceCode |-> sourceCode,
   rawText |-> textContent(acc.dom, IF acc.config.platform = "grok"
                                    THEN querySelector(acc.dom, element, "pre code")
                                    ELSE element),
   pc |-> "await", hasError |-> FALSE, err |-> NoError, result |-> None]

\* a dispatch that draws the id before it looks at the source
Dispatch_DrawsIdFirst(acc, element) ==
  LET sourceCode == extractSourceCode(acc.dom, element, acc.config)
      r == acc.counter + 1
  IN IF sourceCode = <<>>
     THEN [acc EXCEPT !.counter = r]
     ELSE [acc EXCEPT !.dom = createPreservingWrapper(acc.dom, r, sourceCode),
                      !.counter = r,
                      !.tasks = Append(acc.tasks, SweepTask(acc, element, r, sourceCode))]

\* a dispatch that marks a block with empty source as processed
Dispatch_MarksEmpty(acc, element) ==
  LET sourceCode == extractSourceCode(acc.dom, element, acc.config)
      r == acc.counter + 1
  IN IF sourceCode = <<>>
     THEN [acc EXCEPT !.dom = [acc.dom EXCEPT ![element].attrs = @ \cup {ProcessedAttr}]]
     ELSE [acc EXCEPT !.dom = createPreservingWrapper(acc.dom, r, sourceCode),
                      !.counter = r,
                      !.tasks = Append(acc.tasks, SweepTask(acc, element, r, sourceCode))]

\* a dispatch that reads the counter without incrementing it
Dispatch_NoIncrement(acc, element) ==
  LET sourceCode == extractSourceCode(acc.dom, element, acc.config)
      r == acc.counter + 1
  IN IF sourceCode = <<>>
     THEN acc
     ELSE [acc EXCEPT !.dom = createPreservingWrapper(acc.dom, r, sourceCode),
                      !.tasks = Append(acc.tasks, SweepTask(acc, element, r, sourceCode))]

\* a dispatch that puts the shell it builds at the end of the body
Dispatch_AttachesShell(acc, element) ==
  LET sourceCode == extractSourceCode(acc.dom, element, acc.config)
  IN IF sourceCode = <<>>
     THEN acc
     ELSE LET r == acc.counter + 1
          IN [acc EXCEPT
              !.dom = AppendChild(createPreservingWrapper(acc.dom, r, sourceCode),
                                  Body, Container(r)),
              !.counter = r,
              !.tasks = Append(acc.tasks, SweepTask(acc, element, r, sourceCode))]

\* renderMermaidBlock up to its first suspension, on the state acc of a sweep:
\* an empty source returns null, otherwise the shell is built, an id is drawn
\* and mermaid.render is called
Dispatch(acc, element) ==
  LET sourceCode == extractSourceCode(acc.dom, element, acc.config)
  IN IF sourceCode = <<>>
     THEN acc
     ELSE LET r == acc.counter + 1
          IN [acc EXCEPT
              !.dom = createPreservingWrapper(acc.dom, r, sourceCode),
              !.counter = r,
              !.tasks = Append(acc.tasks, SweepTask(acc, element, r, sourceCode))]

RECURSIVE DispatchAll_Reversed(_, _)
\* a loop that dispatches the last block first
DispatchAll_Reversed(acc, blocks) ==
  IF blocks = <<>> THEN acc
  ELSE Dispatch(DispatchAll_Reversed(acc, Tail(blocks)), Head(blocks))

RECURSIVE DispatchAll(_, _)
\* blocks.forEach((block) => renderMermaidBlock(block, config))
DispatchAll(acc, blocks) ==
  IF blocks = <<>> THEN acc ELSE DispatchAll(Dispatch(acc, Head(blocks)), Tail(blocks))

\* one findUnprocessedMermaidBlocks + renderMermaidBlock sweep from the current state;
\* via names the caller and batch the counter when the sweep began (both only recorded)
SweepResultWith(cfg, via) ==
  DispatchAll([dom |-> dom, counter |-> renderCounter, tasks |-> tasks,
               via |-> via, batch |-> renderCounter, config |-> cfg],
              findUnprocessedMermaidBlocks(dom, cfg))

SweepResult(via) == SweepResultWith(config, via)

\* a sweep under the configuration cfg
SweepWith(cfg, via) ==
  LET res == SweepResultWith(cfg, via)
  IN /\ res.counter <= MaxRenders
     /\ dom' = res.dom
     /\ renderCounter' = res.counter
     /\ tasks' = res.tasks

Sweep(via) == SweepWith(config, via)

\* an initRenderer that sweeps and subscribes no observer
InitRenderer_NoSubscription ==
  /\ ~started
  /\ Sweep("processExistingBlocks")
  /\ started' = TRUE
  /\ UNCHANGED <<errorLog, hostname, mainPlatform, mainPc, config, observing, timers, rafQueue, frameBatch>>

\* initRenderer: processExistingBlocks, then setupMutationObserver
InitRenderer ==
  /\ ~started
  /\ Sweep("processExistingBlocks")
  /\ started' = TRUE
  /\ observing' = TRUE
  /\ UNCHANGED <<errorLog, hostname, mainPlatform, mainPc, config, timers, rafQueue, frameBatch>>

\* the browser starts an animation frame: the callbacks requested so far will run
AnimationFrame ==
  /\ frameBatch = 0
  /\ rafQueue > 0
  /\ frameBatch' = rafQueue
  /\ rafQueue' = 0
  /\ UNCHANGED <<errorLog, hostname, mainPlatform, mainPc, dom, config, started, observing, renderCounter, tasks, timers>>

\* one requestAnimationFrame callback of the observer runs
RafCallback ==
  /\ frameBatch > 0
  /\ Sweep("requestAnimationFrame")
  /\ frameBatch' = frameBatch - 1
  /\ UNCHANGED <<errorLog, hostname, mainPlatform, mainPc, config, started, observing, timers, rafQueue>>

\* a completion that reads the source from the candidate again
ResolvedDom_ReadsAtCommit(r) ==
  LET t == tasks[r]
      now == extractSourceCode(dom, t.element, config)
      d1 == [dom EXCEPT ![RenderedDiv(r)].html = Svg(t.uniqueId, now),
                        ![SourceCodeEl(r)].text = now]
      d2 == createToggleButton(d1, r, SourceWrapper(r), RenderedDiv(r), FALSE)
      d3 == AppendChild(d2, Container(r), ToggleBtn(r))
  IN ReplaceWith(d3, getWrapperToReplace(d3, t.element, config), Container(r))

\* renderMermaidBlock after mermaid.render resolved: markup, toggle, commit
ResolvedDom(r) ==
  LET t == tasks[r]
      d1 == [dom EXCEPT ![RenderedDiv(r)].html = Svg(t.uniqueId, t.sourceCode)]
      d2 == createToggleButton(d1, r, SourceWrapper(r), RenderedDiv(r), FALSE)
      d3 == AppendChild(d2, Container(r), ToggleBtn(r))
  IN ReplaceWith(d3, getWrapperToReplace(d3, t.element, config), Container(r))

\* renderMermaidBlock after mermaid.render rejected with err: cleanup, error
\* presentation, toggle showing the source, commit
RejectedDom(r, err) ==
  LET t == tasks[r]
      d1 == cleanupMermaidErrorElements(dom, t.uniqueId)
      d2 == createErrorElement(d1, r, parseErrorMessage(err))
      d3 == [AppendChild([d2 EXCEPT ![RenderedDiv(r)].html = NoHtml],
                         RenderedDiv(r), ErrorEl(r))
               EXCEPT ![RenderedDiv(r)].cls = @ \cup {"mpr-error-container"}]
      d4 == createToggleButton(d3, r, SourceWrapper(r), RenderedDiv(r), TRUE)
      d5 == AppendChild(d4, Container(r), ToggleBtn(r))
  IN ReplaceWith(d5, getWrapperToReplace(d5, t.element, config), Container(r))

\* what mermaid.render rejects with on the pages that do not look at the text
RenderErrors == {ErrorOf(<<"N", "o", " ", "d", "i", "a", "g", "r", "a", "m">>)}

RenderResolves ==
  \E r \in 1..Len(tasks) :
    /\ tasks[r].fn = "renderMermaidBlock"
    /\ tasks[r].pc = "await"
    /\ LET e == ResolvedDom(r)
           q == Requested(dom, e)
       IN q <= MaxRaf /\ dom' = e /\ rafQueue' = q
    /\ tasks' = [tasks EXCEPT ![r].pc = "done", ![r].result = Container(r)]
    /\ UNCHANGED <<errorLog, hostname, mainPlatform, mainPc, config, started, observing, renderCounter, timers,
                   frameBatch>>

\* mermaid.render rejects with one of the values in errors
RenderRejectsFrom(errors) ==
  \E r \in 1..Len(tasks), err \in errors :
    /\ tasks[r].fn = "renderMermaidBlock"
    /\ tasks[r].pc = "await"
    /\ LET e == RejectedDom(r, err)
           q == Requested(dom, e)
       IN q <= MaxRaf /\ dom' = e /\ rafQueue' = q
    /\ tasks' = [tasks EXCEPT ![r].pc = "done", ![r].hasError = TRUE,
                              ![r].err = err, ![r].result = Container(r)]
    /\ timers' = timers \cup {r}
    /\ UNCHANGED <<errorLog, hostname, mainPlatform, mainPc, config, started, observing, renderCounter,
                   frameBatch>>

RenderRejects == RenderRejectsFrom(RenderErrors)

\* a timer callback that cleans nothing up
DelayedCleanup_Nothing ==
  \E r \in timers :
    /\ frameBatch = 0
    /\ timers' = timers \ {r}
    /\ UNCHANGED <<errorLog, hostname, mainPlatform, mainPc, dom, config, started, observing, renderCounter, tasks, rafQueue,
                   frameBatch>>

\* the timer set by the failure path fires
DelayedCleanup ==
  \E r \in timers :
    LET e == cleanupMermaidErrorElements(dom, tasks[r].uniqueId)
        q == Requested(dom, e)
    IN /\ frameBatch = 0
       /\ q <= MaxRaf
       /\ dom' = e
       /\ timers' = timers \ {r}
       /\ rafQueue' = q
       /\ UNCHANGED <<errorLog, hostname, mainPlatform, mainPc, config, started, observing, renderCounter, tasks,
                      frameBatch>>

(***************************************************************************)
(* The external renderer's side effect: elements keyed by the render id    *)
(* appended to the body, while the render runs or after it failed.         *)
(***************************************************************************)
PollutionDiv(r) == <<"pollutionDiv", r>>
PollutionSvg(r) == <<"pollutionSvg", r>>

NumPollution == Cardinality({n \in DOMAIN dom : n[1] \in {"pollutionDiv", "pollutionSvg"}})

RendererInjects ==
  \E r \in 1..Len(tasks), kind \in {"div", "svg"} :
    LET n == IF kind = "div" THEN PollutionDiv(r) ELSE PollutionSvg(r)
        el == IF kind = "div"
              THEN [El("div", {}, {}, <<>>) EXCEPT !.id = <<"d">> \o tasks[r].uniqueId]
              ELSE [El("svg", {}, {<<"aria-roledescription", "error">>}, <<>>)
                      EXCEPT !.id = tasks[r].uniqueId]
        e == AppendChild(WithNodes(dom, n :> el), Body, n)
    IN /\ frameBatch = 0
       /\ NumPollution < MaxInject
       /\ n \notin DOMAIN dom
       /\ tasks[r].pc = "await" \/ tasks[r].hasError
       /\ Requested(dom, e) <= MaxRaf
       /\ dom' = e
       /\ rafQueue' = Requested(dom, e)
       /\ UNCHANGED <<errorLog, hostname, mainPlatform, mainPc, config, started, observing, renderCounter, tasks, timers,
                      frameBatch>>

(***************************************************************************)
(* Grok: the diagram is rendered beside the host page's code element.      *)
(***************************************************************************)
GrokDiagram(r) == <<"grokDiagram", r>>
GrokSourceWrapper(r) == <<"grokSourceWrapper", r>>
GrokSourceCodeEl(r) == <<"grokSourceCodeEl", r>>
GrokRenderedDiv(r) == <<"grokRenderedDiv", r>>

createGrokDiagramContainer(d, r, sourceCode) ==
  LET fresh ==
        (GrokDiagram(r) :> [El("div", {"mpr-grok-diagram"}, {}, <<>>)
                            EXCEPT !.display = "none",
                                   !.kids = <<GrokSourceWrapper(r), GrokRenderedDiv(r)>>])
        @@ (GrokSourceWrapper(r) :> [El("pre", {"mpr-source"}, {}, <<>>)
                            EXCEPT !.display = "none", !.parent = GrokDiagram(r),
                                   !.kids = <<GrokSourceCodeEl(r)>>])
        @@ (GrokSourceCodeEl(r) :> [El("code", {"language-mermaid"}, {}, sourceCode)
                            EXCEPT !.parent = GrokSourceWrapper(r)])
        @@ (GrokRenderedDiv(r) :> [El("div", {"mpr-rendered"}, {}, <<>>)
                            EXCEPT !.parent = GrokDiagram(r)])
  IN WithNodes(d, fresh)

\* renderGrokMermaidBlock up to its first suspension: true when it reaches mermaid.render
GrokReachesRender(wrapper) ==
  /\ querySelector(dom, wrapper, config.previewButtonSelector) # None
  /\ extractSourceCode(dom, wrapper, config) # <<>>

\* a caller hands an unprocessed grok wrapper to renderGrokMermaidBlock
CallRenderGrok ==
  /\ config.platform = "grok"
  /\ ~started
  /\ \E wrapper \in Range(findUnprocessedMermaidBlocks(dom, config)) :
       IF GrokReachesRender(wrapper)
       THEN LET r == renderCounter + 1
                sourceCode == extractSourceCode(dom, wrapper, config)
            IN /\ r <= MaxRenders
               /\ dom' = createGrokDiagramContainer(dom, r, sourceCode)
               /\ renderCounter' = r
               /\ tasks' = Append(tasks,
                     [fn |-> "renderGrokMermaidBlock", via |-> "caller",
                      batch |-> renderCounter, element |-> wrapper,
                      uniqueId |-> UniqueId(r), sourceCode |-> sourceCode,
                      rawText |-> textContent(dom, querySelector(dom, wrapper, "pre code")),
                      pc |-> "await", hasError |-> FALSE, err |-> NoError, result |-> None])
       ELSE UNCHANGED <<dom, renderCounter, tasks>>
  /\ UNCHANGED <<errorLog, hostname, mainPlatform, mainPc, config, started, observing, timers, rafQueue, frameBatch>>

\* steps 5 to 8 of renderGrokMermaidBlock on the DOM d
GrokCommit(d, r) ==
  LET wrapper == tasks[r].element
      codeContainer == querySelector(d, wrapper, ".shiki")
      placed == IF codeContainer # None /\ d[codeContainer].parent # None
                THEN InsertAfter(d, codeContainer, GrokDiagram(r))
                ELSE d
  IN [placed EXCEPT ![wrapper].attrs = @ \cup {ProcessedAttr}]

GrokResolvedDom(r) ==
  GrokCommit([dom EXCEPT ![GrokRenderedDiv(r)].html = Svg(tasks[r].uniqueId, tasks[r].sourceCode)], r)

GrokRejectedDom(r, err) ==
  LET d1 == cleanupMermaidErrorElements(dom, tasks[r].uniqueId)
      d2 == createErrorElement(d1, r, parseErrorMessage(err))
      d3 == [AppendChild([d2 EXCEPT ![GrokRenderedDiv(r)].html = NoHtml],
                         GrokRenderedDiv(r), ErrorEl(r))
               EXCEPT ![GrokRenderedDiv(r)].cls = @ \cup {"mpr-error-container"}]
  IN GrokCommit(d3, r)

GrokResolves ==
  \E r \in 1..Len(tasks) :
    /\ tasks[r].fn = "renderGrokMermaidBlock"
    /\ tasks[r].pc = "await"
    /\ LET e == GrokResolvedDom(r)
           q == Requested(dom, e)
       IN q <= MaxRaf /\ dom' = e /\ rafQueue' = q
    /\ tasks' = [tasks EXCEPT ![r].pc = "done"]
    /\ UNCHANGED <<errorLog, hostname, mainPlatform, mainPc, config, started, observing, renderCounter, timers,
                   frameBatch>>

GrokRejects ==
  \E r \in 1..Len(tasks), err \in RenderErrors :
    /\ tasks[r].fn = "renderGrokMermaidBlock"
    /\ tasks[r].pc = "await"
    /\ LET e == GrokRejectedDom(r, err)
           q == Requested(dom, e)
       IN q <= MaxRaf /\ dom' = e /\ rafQueue' = q
    /\ tasks' = [tasks EXCEPT ![r].pc = "done", ![r].hasError = TRUE]
    /\ timers' = timers \cup {r}
    /\ UNCHANGED <<errorLog, hostname, mainPlatform, mainPc, config, started, observing, renderCounter,
                   frameBatch>>

\* a toggle that leaves the code container as it is
toggleGrokDiagram_DiagramOnly(d, diagramContainer, codeContainer) ==
  IF d[diagramContainer].display # "none"
  THEN [d EXCEPT ![diagramContainer].display = "none"]
  ELSE [d EXCEPT ![diagramContainer].display = ""]

\* toggleGrokDiagram(diagramContainer, codeContainer); codeContainer may be null
toggleGrokDiagram(d, diagramContainer, codeContainer) ==
  LET isShowingDiagram == d[diagramContainer].display # "none"
  IN IF isShowingDiagram
     THEN LET d1 == [d EXCEPT ![diagramContainer].display = "none"]
          IN IF codeContainer # None THEN [d1 EXCEPT ![codeContainer].display = ""] ELSE d1
     ELSE LET d1 == [d EXCEPT ![diagramContainer].display = ""]
          IN IF codeContainer # None THEN [d1 EXCEPT ![codeContainer].display = "none"] ELSE d1

\* the code container the click listener of the r-th call holds: the element
\* step 5 found; nothing adds or removes a .shiki element of a wrapper later
ListenerCodeContainer(d, r) == querySelector(d, tasks[r].element, ".shiki")

\* the click listener that the r-th call put on the preview button runs
PreviewListener ==
  \E r \in 1..Len(tasks) :
    /\ tasks[r].fn = "renderGrokMermaidBlock"
    /\ tasks[r].pc = "done"
    /\ dom' = toggleGrokDiagram(dom, GrokDiagram(r), ListenerCodeContainer(dom, r))
    /\ UNCHANGED <<errorLog, hostname, mainPlatform, mainPc, config, started, observing, renderCounter, tasks,
                   timers, rafQueue, frameBatch>>

\* the grok page appends a code block whose <pre> is not a .shiki element
HostInsertsPlainBlock ==
  /\ config.platform = "grok"
  /\ frameBatch = 0
  /\ NumBlocks < MaxBlocks
  /\ \E k \in BlockKinds :
       LET b == NumBlocks + 1
           block == HostBlock("grok", b, k.text, k.lang, k.label)
           plain == [n \in DOMAIN block |->
                       IF n = HostPre(b) THEN [block[n] EXCEPT !.cls = {}] ELSE block[n]]
           e == AppendChild(WithNodes(dom, plain), Body, HostRoot("grok", b))
       IN /\ Requested(dom, e) <= MaxRaf
          /\ dom' = e
          /\ rafQueue' = Requested(dom, e)
  /\ UNCHANGED <<errorLog, hostname, mainPlatform, mainPc, config, started, observing, renderCounter, tasks, timers,
                 frameBatch>>

Next ==
  \/ HostInsertBlock
  \/ InitRenderer
  \/ AnimationFrame
  \/ RafCallback
  \/ RenderResolves
  \/ RenderRejects
  \/ DelayedCleanup

Spec == Init /\ [][Next]_vars

\* ENABLED <<RafCallback>>_vars, spelled out from the guards of RafCallback
RafCallbackEnabled ==
  frameBatch > 0 /\ SweepResult("requestAnimationFrame").counter <= MaxRenders

\* ENABLED <<RenderResolves \/ RenderRejects>>_vars, spelled out from their guards
SettleEnabled ==
  \E r \in DOMAIN tasks :
    /\ tasks[r].fn = "renderMermaidBlock"
    /\ tasks[r].pc = "await"
    /\ \/ Requested(dom, ResolvedDom(r)) <= MaxRaf
       \/ \E err \in RenderErrors : Requested(dom, RejectedDom(r, err)) <= MaxRaf

\* the page of the liveness check inserts fewer blocks
HostInsertsFew == NumBlocks < MaxLiveBlocks /\ HostInsertBlock

NextFair ==
  \/ HostInsertsFew
  \/ InitRenderer
  \/ AnimationFrame
  \/ RafCallback
  \/ RenderResolves
  \/ RenderRejects
  \/ DelayedCleanup

\* animation frames keep firing, the callbacks of a frame run, renders settle:
\* WF_vars(AnimationFrame), WF_vars(RafCallback) and
\* WF_vars(RenderResolves \/ RenderRejects), the last two written out as
\* []<>~ENABLED <<A>>_vars \/ []<><<A>>_vars over the predicates above
FairSpec ==
  /\ Init /\ [][NextFair]_vars
  /\ WF_vars(AnimationFrame)
  /\ []<>~RafCallbackEnabled \/ []<><<RafCallback>>_vars
  /\ []<>~SettleEnabled \/ []<><<RenderResolves \/ RenderRejects>>_vars

\* processExistingBlocks called on its own, with no observer subscribed
ProcessExistingBlocks ==
  /\ ~started
  /\ Sweep("processExistingBlocks")
  /\ UNCHANGED <<errorLog, hostname, mainPlatform, mainPc, config, started, observing, timers, rafQueue, frameBatch>>

\* the page inserts a block of diagram text
HostInsertsDiagram ==
  /\ HostInsertsFew
  /\ \A n \in DOMAIN dom' \ DOMAIN dom :
       n[1] = "code" => isMermaidContent(textContent(dom', n))

(***************************************************************************)
(* Unexpected exceptions inside renderMermaidBlock: any statement of the   *)
(* function may throw.  Its body is one try block whose catch logs and     *)
(* returns null; mermaid.render and the assignment of the markup sit in an *)
(* inner try block whose catch is the failure path.                        *)
(***************************************************************************)
\* what a call resolves to from the outer catch
NullResult == <<"null", 0>>

\* the message of an exception thrown by renderedDiv.innerHTML = svg
AssignError == ErrorOf(<<"T", "y", "p", "e", "E", "r", "r", "o", "r">>)

RECURSIVE DispatchAllAborting(_, _, _)
\* a forEach that an exception of a call ends
DispatchAllAborting(acc, blocks, throwing) ==
  IF blocks = <<>> THEN acc
  ELSE IF Head(blocks) \in throwing THEN acc
  ELSE DispatchAllAborting(Dispatch(acc, Head(blocks)), Tail(blocks), throwing)

RECURSIVE DispatchAllThrowing(_, _, _)
\* blocks.forEach(...) when the calls for the candidates in throwing throw in
\* extractSourceCode or createPreservingWrapper: each of them returns through
\* the outer catch before an id is drawn, the forEach goes on
DispatchAllThrowing(acc, blocks, throwing) ==
  IF blocks = <<>> THEN acc
  ELSE IF Head(blocks) \in throwing
       THEN DispatchAllThrowing(acc, Tail(blocks), throwing)
       ELSE DispatchAllThrowing(Dispatch(acc, Head(blocks)), Tail(blocks), throwing)

\* a sweep in which the calls for some candidates throw before mermaid.render
SweepThrows(via) ==
  LET found == findUnprocessedMermaidBlocks(dom, config)
  IN \E throwing \in SUBSET Range(found) :
       /\ throwing # {}
       /\ Len(errorLog) + Cardinality(throwing) <= MaxFaults
       /\ LET res == DispatchAllThrowing(
                       [dom |-> dom, counter |-> renderCounter, tasks |-> tasks,
                        via |-> via, batch |-> renderCounter, config |-> config],
                       found, throwing)
          IN /\ res.counter <= MaxRenders
             /\ dom' = res.dom
             /\ renderCounter' = res.counter
             /\ tasks' = res.tasks
             /\ errorLog' = errorLog \o SeqFilter(found, throwing)

\* initRenderer with calls that throw
InitRendererThrows ==
  /\ ~started
  /\ SweepThrows("processExistingBlocks")
  /\ started' = TRUE
  /\ observing' = TRUE
  /\ UNCHANGED <<config, timers, rafQueue, frameBatch, hostname, mainPlatform, mainPc>>

\* a requestAnimationFrame callback with calls that throw
RafCallbackThrows ==
  /\ frameBatch > 0
  /\ SweepThrows("requestAnimationFrame")
  /\ frameBatch' = frameBatch - 1
  /\ UNCHANGED <<config, started, observing, timers, rafQueue, hostname, mainPlatform,
                 mainPc>>

\* renderMermaidBlock after mermaid.render resolved, up to the statement that
\* throws: createToggleButton ("toggle") or replaceWith ("commit")
ResolvedUpTo(r, step) ==
  LET d1 == [dom EXCEPT ![RenderedDiv(r)].html = Svg(tasks[r].uniqueId, tasks[r].sourceCode)]
      d2 == createToggleButton(d1, r, SourceWrapper(r), RenderedDiv(r), FALSE)
      d3 == AppendChild(d2, Container(r), ToggleBtn(r))
  IN IF step = "toggle" THEN d1 ELSE d3

\* renderMermaidBlock after mermaid.render rejected, up to the statement that
\* throws: the error presentation ("present", after both cleanups were
\* issued), createToggleButton or replaceWith
RejectedUpTo(r, err, step) ==
  LET d1 == cleanupMermaidErrorElements(dom, tasks[r].uniqueId)
      d2 == createErrorElement(d1, r, parseErrorMessage(err))
      d3 == [AppendChild([d2 EXCEPT ![RenderedDiv(r)].html = NoHtml],
                         RenderedDiv(r), ErrorEl(r))
               EXCEPT ![RenderedDiv(r)].cls = @ \cup {"mpr-error-container"}]
      d4 == createToggleButton(d3, r, SourceWrapper(r), RenderedDiv(r), TRUE)
      d5 == AppendChild(d4, Container(r), ToggleBtn(r))
  IN IF step = "present" THEN d1 ELSE IF step = "toggle" THEN d3 ELSE d5

\* an exception after a resolved render, outside the inner try: the outer catch
\* logs it and the call resolves to null
ResolvedThenThrows ==
  \E r \in 1..Len(tasks), step \in {"toggle", "commit"} :
    /\ tasks[r].fn = "renderMermaidBlock"
    /\ tasks[r].pc = "await"
    /\ Len(errorLog) < MaxFaults
    /\ dom' = ResolvedUpTo(r, step)
    /\ tasks' = [tasks EXCEPT ![r].pc = "done", ![r].result = NullResult]
    /\ errorLog' = Append(errorLog, tasks[r].element)
    /\ UNCHANGED <<config, started, observing, renderCounter, timers, rafQueue,
                   frameBatch, hostname, mainPlatform, mainPc>>

\* an exception in the failure path or after it: the cleanups were issued, the
\* outer catch logs and the call resolves to null
RejectedThenThrows ==
  \E r \in 1..Len(tasks), err \in RenderErrors, step \in {"present", "toggle", "commit"} :
    /\ tasks[r].fn = "renderMermaidBlock"
    /\ tasks[r].pc = "await"
    /\ Len(errorLog) < MaxFaults
    /\ LET e == RejectedUpTo(r, err, step)
           q == Requested(dom, e)
       IN q <= MaxRaf /\ dom' = e /\ rafQueue' = q
    /\ tasks' = [tasks EXCEPT ![r].pc = "done", ![r].hasError = TRUE,
                              ![r].err = err, ![r].result = NullResult]
    /\ timers' = timers \cup {r}
    /\ errorLog' = Append(errorLog, tasks[r].element)
    /\ UNCHANGED <<config, started, observing, renderCounter, frameBatch, hostname,
                   mainPlatform, mainPc>>

\* renderedDiv.innerHTML = svg throws inside the inner try: its catch takes the
\* exception for a render failure
AssignThrows ==
  \E r \in 1..Len(tasks) :
    /\ tasks[r].fn = "renderMermaidBlock"
    /\ tasks[r].pc = "await"
    /\ LET e == RejectedDom(r, AssignError)
           q == Requested(dom, e)
       IN q <= MaxRaf /\ dom' = e /\ rafQueue' = q
    /\ tasks' = [tasks EXCEPT ![r].pc = "done", ![r].hasError = TRUE,
                              ![r].err = AssignError, ![r].result = Container(r)]
    /\ timers' = timers \cup {r}
    /\ UNCHANGED <<config, started, observing, renderCounter, frameBatch, hostname,
                   mainPlatform, mainPc, errorLog>>

InitFaults == Init /\ config = getPlatformConfig("chatgpt")

\* the page appends a block of diagram text; a render fails by AssignThrows,
\* which takes the failure path as a rejected mermaid.render does
HostInsertsCandidate ==
  /\ HostInsertBlock
  /\ \A n \in DOMAIN dom' \ DOMAIN dom :
       n[1] = "code" => isMermaidContent(textContent(dom', n))

NextFaults ==
  \/ HostInsertsCandidate
  \/ InitRenderer
  \/ AnimationFrame
  \/ RafCallback
  \/ RenderResolves
  \/ DelayedCleanup
  \/ InitRendererThrows
  \/ RafCallbackThrows
  \/ ResolvedThenThrows
  \/ RejectedThenThrows
  \/ AssignThrows

SpecFaults == InitFaults /\ [][NextFaults]_vars

(***************************************************************************)
(* The error parser on a page whose one diagram fails to render with a     *)
(* thrown value of any kind, its diagnostic put together from the phrases  *)
(* of the patterns, digits and other text.                                 *)
(***************************************************************************)
ErrorPieces ==
  { ERROR_PATTERNS[1].phrase, <<"3">>, <<"1", "5">>,
    ERROR_PATTERNS[2].phrase,
    <<"S", "Y", "N", "T", "A", "X", " ", "E", "R", "R", "O", "R", " ", "i", "n", " ", "t", "e", "x", "t">>,
    <<":", " ", "x">> }

RECURSIVE DiagnosticsUpTo(_)
\* the diagnostics made of n pieces at most
DiagnosticsUpTo(n) ==
  IF n = 0 THEN {<<>>}
  ELSE LET shorter == DiagnosticsUpTo(n - 1)
       IN shorter \cup {s \o f : s \in shorter, f \in ErrorPieces}

\* what mermaid.render may reject with
ErrorValues ==
  {ErrorOf(m) : m \in DiagnosticsUpTo(MaxErrorPieces)}
    \cup {<<"string", m>> : m \in DiagnosticsUpTo(MaxErrorPieces)}
    \cup {<<"null", <<>>>>, <<"undefined", <<>>>>, <<"number", <<"4", "2">>>>}

InitErrors ==
  /\ dom = AppendChild(WithNodes((Body :> El("body", {}, {}, <<>>)),
                                 HostBlock("chatgpt", 1, <<"g", "r", "a", "p", "h", " ", "T", "D">>,
                                           "language-mermaid", <<>>)),
                       Body, HostRoot("chatgpt", 1))
  /\ config = getPlatformConfig("chatgpt")
  /\ started = FALSE
  /\ observing = FALSE
  /\ renderCounter = 0
  /\ tasks = <<>>
  /\ timers = {}
  /\ rafQueue = 0
  /\ frameBatch = 0
  /\ hostname = selectors[config.platform].hostname
  /\ mainPlatform = config.platform
  /\ mainPc = "initRenderer"
  /\ errorLog = <<>>

\* the render of the diagram rejects with any of the values
RenderRejectsAny == RenderRejectsFrom(ErrorValues)

NextErrors ==
  \/ InitRenderer
  \/ RenderRejectsAny
  \/ DelayedCleanup
  \/ AnimationFrame
  \/ RafCallback

SpecErrors == InitErrors /\ [][NextErrors]_vars

(***************************************************************************)
(* Quiescence: a className page with one diagram; the page inserts other   *)
(* blocks and the renderer injects its elements, finitely often; frames    *)
(* fire, callbacks run, renders settle and timers expire.                  *)
(***************************************************************************)
\* the sweeps requested and not yet run
PendingSweeps == rafQueue + frameBatch

\* one more sweep, after those pending, stays within the renders modelled
MutationBudget ==
  renderCounter + (PendingSweeps + 1) * Len(findUnprocessedMermaidBlocks(dom, config))
    <= MaxRenders

\* the page appends a block that is no diagram, with the observer subscribed
HostInsertsOther ==
  /\ observing
  /\ MutationBudget
  /\ HostInsertBlock
  /\ \A n \in DOMAIN dom' \ DOMAIN dom :
       n[1] = "code" => "language-mermaid" \notin dom'[n].cls

\* the external renderer appends its working element d{id} to the body
RendererInjectsSome ==
  /\ MutationBudget
  /\ RendererInjects
  /\ \A n \in DOMAIN dom' \ DOMAIN dom : n[1] = "pollutionDiv"

\* ENABLED <<DelayedCleanup>>_vars, spelled out from its guards
DelayedCleanupEnabled ==
  \E r \in timers :
    /\ frameBatch = 0
    /\ Requested(dom, cleanupMermaidErrorElements(dom, tasks[r].uniqueId)) <= MaxRaf

NextQuiesce ==
  \/ HostInsertsOther
  \/ RendererInjectsSome
  \/ InitRenderer
  \/ AnimationFrame
  \/ RafCallback
  \/ RenderResolves
  \/ RenderRejects
  \/ DelayedCleanup

\* WF_vars of AnimationFrame, RafCallback, RenderResolves \/ RenderRejects
\* and DelayedCleanup; none of the page or of the injections
SpecQuiesce ==
  /\ InitErrors /\ [][NextQuiesce]_vars
  /\ WF_vars(AnimationFrame)
  /\ []<>~RafCallbackEnabled \/ []<><<RafCallback>>_vars
  /\ []<>~SettleEnabled \/ []<><<RenderResolves \/ RenderRejects>>_vars
  /\ []<>~DelayedCleanupEnabled \/ []<><<DelayedCleanup>>_vars

(***************************************************************************)
(* A className page that rewrites the text of its diagram while renders    *)
(* of it are in flight (a streamed answer).                                *)
(***************************************************************************)
EditTexts == {<<"g", "r", "a", "p", "h", " ", "L", "R">>, <<" ", "p", "i", "e", "\n">>, <<" ", "\n">>}

\* the page replaces the text of the code element; the observer is called
\* when the page does it by replacing child nodes (notify), not when it
\* changes the data of the text node
HostEditsText ==
  /\ frameBatch = 0
  /\ IsAttached(dom, HostCode(1))
  /\ \E text \in EditTexts, notify \in BOOLEAN :
       LET q == IF observing /\ notify THEN rafQueue + 1 ELSE rafQueue
       IN /\ dom[HostCode(1)].text # text
          /\ q <= MaxRaf
          /\ dom' = [dom EXCEPT ![HostCode(1)].text = text]
          /\ rafQueue' = q
  /\ UNCHANGED <<errorLog, hostname, mainPlatform, mainPc, config, started, observing, renderCounter, tasks, timers,
                 frameBatch>>

NextSnapshot ==
  \/ HostEditsText
  \/ InitRenderer
  \/ AnimationFrame
  \/ RafCallback
  \/ RenderResolves
  \/ RenderRejects
  \/ DelayedCleanup

SpecSnapshot == InitErrors /\ [][NextSnapshot]_vars

(***************************************************************************)
(* The entry point (index.ts): main from the page load on.                 *)
(***************************************************************************)
\* the hostnames of the pages main is started on
MainHostnames ==
  { selectors["chatgpt"].hostname,
    <<"w", "w", "w", ".">> \o selectors["claude"].hostname,
    selectors["gemini"].hostname,
    selectors["grok"].hostname,
    <<"w", "w", "w", ".">> \o selectors["grok"].hostname,
    <<"g", "o", "o", "g", "l", "e", ".", "c", "o", "m">>,
    selectors["grok"].hostname \o <<".">> \o selectors["chatgpt"].hostname }

InitMain ==
  /\ dom = (Body :> El("body", {}, {}, <<>>)) @@ (DocHead :> El("head", {}, {}, <<>>))
  /\ config = NoConfig
  /\ started = FALSE
  /\ observing = FALSE
  /\ renderCounter = 0
  /\ tasks = <<>>
  /\ timers = {}
  /\ rafQueue = 0
  /\ frameBatch = 0
  /\ hostname \in MainHostnames
  /\ mainPlatform = "undefined"
  /\ mainPc = "start"
  /\ errorLog = <<>>

\* the layouts the page of a hostname may use: its platform's, any on other sites
PageShapes(h) == IF detectPlatform(h) = Null THEN Platform ELSE {detectPlatform(h)}

\* the page appends a code block, before or after main ran
PageInsertsBlock ==
  /\ NumBlocks < MaxLiveBlocks
  /\ \E p \in PageShapes(hostname) : HostInsertAs(p)

\* the <script> element of the loader
LoaderScript == <<"script", 0>>

\* loadMermaidLibrary() up to its return of the promise: settled at once when
\* window.mermaid is defined, else pending on a script appended to the head
loadMermaidLibrary(d, mermaidDefined) ==
  IF mermaidDefined THEN [dom |-> d, pc |-> "resolved"]
  ELSE [dom |-> AppendChild(WithNodes(d, LoaderScript :> El("script", {}, {}, <<>>)),
                            DocHead, LoaderScript),
        pc |-> "loading"]

\* a main that goes on for every detected platform
Main_NoSkip ==
  /\ mainPc = "start"
  /\ mainPlatform' = detectPlatform(hostname)
  /\ IF mainPlatform' = Null
     THEN mainPc' = "unsupported" /\ dom' = dom
     ELSE \E mermaidDefined \in BOOLEAN :
            LET load == loadMermaidLibrary(dom, mermaidDefined)
            IN mainPc' = load.pc /\ dom' = load.dom
  /\ UNCHANGED <<errorLog, config, started, observing, renderCounter, tasks, timers,
                 rafQueue, frameBatch, hostname>>

\* main up to await loadMermaidLibrary(): it returns for an unsupported
\* hostname and for grok
Main ==
  /\ mainPc = "start"
  /\ mainPlatform' = detectPlatform(hostname)
  /\ IF mainPlatform' = Null THEN mainPc' = "unsupported" /\ dom' = dom
     ELSE IF mainPlatform' = "grok" THEN mainPc' = "skipped" /\ dom' = dom
     ELSE \E mermaidDefined \in BOOLEAN :
            LET load == loadMermaidLibrary(dom, mermaidDefined)
            IN mainPc' = load.pc /\ dom' = load.dom
  /\ UNCHANGED <<errorLog, config, started, observing, renderCounter, tasks, timers,
                 rafQueue, frameBatch, hostname>>

\* a main that initialises the renderer after a failed load as well
LoadRejects_Initialises ==
  /\ mainPc = "loading"
  /\ config' = getPlatformConfig(mainPlatform)
  /\ SweepWith(config', "processExistingBlocks")
  /\ started' = TRUE
  /\ observing' = TRUE
  /\ mainPc' = "loadFailed"
  /\ UNCHANGED <<errorLog, timers, rafQueue, frameBatch, hostname, mainPlatform>>

\* script.onerror: loadMermaidLibrary rejects, main logs and returns
LoadRejects ==
  /\ mainPc = "loading"
  /\ mainPc' = "loadFailed"
  /\ UNCHANGED <<errorLog, dom, config, started, observing, renderCounter, tasks, timers,
                 rafQueue, frameBatch, hostname, mainPlatform>>

\* loadMermaidLibrary resolved: getPlatformConfig(platform), initRenderer(config)
LoadResolves ==
  /\ mainPc \in {"loading", "resolved"}
  /\ config' = getPlatformConfig(mainPlatform)
  /\ SweepWith(config', "processExistingBlocks")
  /\ started' = TRUE
  /\ observing' = TRUE
  /\ mainPc' = "initialized"
  /\ UNCHANGED <<errorLog, timers, rafQueue, frameBatch, hostname, mainPlatform>>

NextMain ==
  \/ PageInsertsBlock
  \/ Main
  \/ LoadRejects
  \/ LoadResolves
  \/ AnimationFrame
  \/ RafCallback
  \/ RenderResolves
  \/ RenderRejects
  \/ DelayedCleanup

SpecMain == InitMain /\ [][NextMain]_vars

(***************************************************************************)
(* detectPlatform on hostnames put together from the match substrings and  *)
(* other pieces.                                                           *)
(***************************************************************************)
HostFragments ==
  {selectors[p].hostname : p \in Platform}
    \cup {<<"w", "w", "w", ".">>, <<".">>, <<"x">>, <<"g", "o", "o", "g", "l", "e", ".", "c", "o", "m">>}

RECURSIVE Concatenations(_)
\* the strings made of n fragments at most
Concatenations(n) ==
  IF n = 0 THEN {<<>>}
  ELSE LET shorter == Concatenations(n - 1)
       IN shorter \cup {s \o f : s \in shorter, f \in HostFragments}

Hostnames == Concatenations(MaxFragments)

InitIdentify ==
  /\ dom = (Body :> El("body", {}, {}, <<>>)) @@ (DocHead :> El("head", {}, {}, <<>>))
  /\ config = NoConfig
  /\ started = FALSE
  /\ observing = FALSE
  /\ renderCounter = 0
  /\ tasks = <<>>
  /\ timers = {}
  /\ rafQueue = 0
  /\ frameBatch = 0
  /\ hostname \in Hostnames
  /\ mainPlatform = "undefined"
  /\ mainPc = "start"
  /\ errorLog = <<>>

\* main calls detectPlatform on the hostname of the page
SpecIdentify == InitIdentify /\ [][Main]_vars

(***************************************************************************)
(* The content classifier on a gemini page whose one block holds a text    *)
(* put together from keywords, other words and whitespace.                 *)
(***************************************************************************)
TextPieces ==
  { <<"p", "i", "e">>, <<"P", "I", "E">>, <<"G", "r", "a", "p", "h">>,
    <<"s">>, <<"x">>, <<" ">>, <<"\n">>, <<"\t">> }

RECURSIVE PiecesUpTo(_)
\* the texts made of n pieces at most
PiecesUpTo(n) ==
  IF n = 0 THEN {<<>>}
  ELSE LET shorter == PiecesUpTo(n - 1)
       IN shorter \cup {s \o f : s \in shorter, f \in TextPieces}

ContentTexts == PiecesUpTo(MaxPieces)

InitClassify ==
  /\ \E text \in ContentTexts :
       dom = AppendChild(WithNodes((Body :> El("body", {}, {}, <<>>)),
                                   HostBlock("gemini", 1, text, "", <<>>)),
                         Body, HostRoot("gemini", 1))
  /\ config = getPlatformConfig("gemini")
  /\ started = FALSE
  /\ observing = FALSE
  /\ renderCounter = 0
  /\ tasks = <<>>
  /\ timers = {}
  /\ rafQueue = 0
  /\ frameBatch = 0
  /\ hostname = selectors[config.platform].hostname
  /\ mainPlatform = config.platform
  /\ mainPc = "initRenderer"
  /\ errorLog = <<>>

\* the block of the page is swept, classified by its content
SpecClassify == InitClassify /\ [][ProcessExistingBlocks]_vars

\* a click handler that shows the source without hiding the diagram
toggleClick_KeepsRendered(d, r) ==
  IF d[ToggleBtn(r)].title # "Show diagram"
  THEN [d EXCEPT ![SourceWrapper(r)].display = "block",
                 ![ToggleBtn(r)].html = <<"play">>,
                 ![ToggleBtn(r)].title = "Show diagram"]
  ELSE [d EXCEPT ![SourceWrapper(r)].display = "none",
                 ![RenderedDiv(r)].display = "block",
                 ![ToggleBtn(r)].html = <<"{ }">>,
                 ![ToggleBtn(r)].title = "Show source code"]

\* a click handler that shows the source whatever was shown
toggleClick_ShowsSource(d, r) ==
  [d EXCEPT ![SourceWrapper(r)].display = "block",
            ![RenderedDiv(r)].display = "none",
            ![ToggleBtn(r)].html = <<"play">>,
            ![ToggleBtn(r)].title = "Show diagram"]

\* the click listener of the toggle of artifact r: showingSource is flipped
\* (it is what the button's title says), then the two regions are swapped
toggleClick(d, r) ==
  IF d[ToggleBtn(r)].title # "Show diagram"
  THEN [d EXCEPT ![SourceWrapper(r)].display = "block",
                 ![RenderedDiv(r)].display = "none",
                 ![ToggleBtn(r)].html = <<"play">>,
                 ![ToggleBtn(r)].title = "Show diagram"]
  ELSE [d EXCEPT ![SourceWrapper(r)].display = "none",
                 ![RenderedDiv(r)].display = "block",
                 ![ToggleBtn(r)].html = <<"{ }">>,
                 ![ToggleBtn(r)].title = "Show source code"]

\* the user clicks the toggle of a committed artifact (a style change is no
\* childList mutation: the observer is not called)
ToggleClick ==
  /\ \E r \in DOMAIN tasks :
       /\ ToggleBtn(r) \in DOMAIN dom
       /\ IsAttached(dom, ToggleBtn(r))
       /\ dom' = toggleClick(dom, r)
  /\ UNCHANGED <<errorLog, hostname, mainPlatform, mainPc, config, started, observing, renderCounter, tasks, timers,
                 rafQueue, frameBatch>>

\* the page with a user who clicks toggles
NextToggle ==
  \/ NextFair
  \/ ToggleClick

SpecToggle == Init /\ [][NextToggle]_vars

(***************************************************************************)
(* A className page with diagrams only whose user clicks the toggles.      *)
(***************************************************************************)
NextArtifact ==
  \/ HostInsertsCandidate
  \/ ProcessExistingBlocks
  \/ RenderResolves
  \/ RenderRejects
  \/ DelayedCleanup
  \/ ToggleClick

SpecArtifact == InitFaults /\ [][NextArtifact]_vars

\* the renderer that leaves elements behind in the document
NextPollution ==
  \/ HostInsertsDiagram
  \/ ProcessExistingBlocks
  \/ RenderResolves
  \/ RenderRejects
  \/ DelayedCleanup
  \/ RendererInjects

SpecPollution == Init /\ [][NextPollution]_vars

\* the grok page, where renderGrokMermaidBlock is called besides the sweeps
InitGrok == Init /\ config = getPlatformConfig("grok")

NextGrok ==
  \/ Next
  \/ CallRenderGrok
  \/ GrokResolves
  \/ GrokRejects

SpecGrok == InitGrok /\ [][NextGrok]_vars

\* the grok page with nothing but renderGrokMermaidBlock and its listeners
NextInPlace ==
  \/ HostInsertBlock
  \/ HostInsertsPlainBlock
  \/ CallRenderGrok
  \/ GrokResolves
  \/ GrokRejects
  \/ PreviewListener

SpecInPlace == InitGrok /\ [][NextInPlace]_vars

\* the same on pages whose every code block has a .shiki element
NextShiki ==
  \/ HostInsertBlock
  \/ CallRenderGrok
  \/ GrokResolves
  \/ GrokRejects
  \/ PreviewListener

SpecShiki == InitGrok /\ [][NextShiki]_vars

(***************************************************************************)
(* The detector on documents that carry processed markers anywhere: the    *)
(* page inserts blocks, any element may be marked (as the unit tests and   *)
(* renderGrokMermaidBlock do), and initRenderer sweeps.                    *)
(***************************************************************************)
\* data-mpr-processed="true" is set on an element of the document
MarkProcessed ==
  /\ ~started
  /\ Cardinality({m \in DOMAIN dom : IsAttached(dom, m) /\ ProcessedAttr \in dom[m].attrs}) < MaxMarks
  /\ \E n \in DOMAIN dom :
       /\ IsAttached(dom, n)
       /\ ProcessedAttr \notin dom[n].attrs
       /\ dom' = [dom EXCEPT ![n].attrs = @ \cup {ProcessedAttr}]
  /\ UNCHANGED <<errorLog, hostname, mainPlatform, mainPc, config, started, observing, renderCounter, tasks, timers,
                 rafQueue, frameBatch>>

NextDetector ==
  \/ HostInsertBlock
  \/ MarkProcessed
  \/ InitRenderer

SpecDetector == Init /\ [][NextDetector]_vars

\* some caller calls the detector and drops the result
CallDetector ==
  /\ dom' = DetectorCall(dom, config).dom
  /\ UNCHANGED <<errorLog, hostname, mainPlatform, mainPc, config, started, observing, renderCounter, tasks, timers,
                 rafQueue, frameBatch>>

NextQuery ==
  \/ HostInsertBlock
  \/ MarkProcessed
  \/ CallDetector

SpecQuery == Init /\ [][NextQuery]_vars

(***************************************************************************)
(* The languageLabel strategy on a grok page with two code blocks: each    *)
(* has a label of some language or none, and diagram text or other code.   *)
(***************************************************************************)
NoLabel == <<"<no label>">>

LabelTexts ==
  { MermaidWord, <<" ", "M", "E", "R", "M", "A", "I", "D", "\n">>, <<"j", "a", "v", "a", "s", "c", "r", "i", "p", "t">>, <<"m", "e", "r", "m", "a", "i", "d", "s">>, NoLabel }

CodeTexts == { <<"g", "r", "a", "p", "h", " ", "T", "D">>, <<"x", "=", "1">> }

\* the b-th grok block with the given label (none for NoLabel) and code
LabelBlock(d, b, label, text) ==
  LET e == AppendChild(WithNodes(d, HostBlock("grok", b, text, "", label)),
                       Body, HostRoot("grok", b))
  IN IF label = NoLabel THEN Remove(e, HostLabel(b)) ELSE e

InitLabel ==
  /\ \E l1 \in LabelTexts, l2 \in LabelTexts, t1 \in CodeTexts, t2 \in CodeTexts :
       dom = LabelBlock(LabelBlock((Body :> El("body", {}, {}, <<>>)), 1, l1, t1), 2, l2, t2)
  /\ config = getPlatformConfig("grok")
  /\ started = FALSE
  /\ observing = FALSE
  /\ renderCounter = 0
  /\ tasks = <<>>
  /\ timers = {}
  /\ rafQueue = 0
  /\ frameBatch = 0
  /\ hostname = selectors[config.platform].hostname
  /\ mainPlatform = config.platform
  /\ mainPc = "initRenderer"
  /\ errorLog = <<>>

NextLabel ==
  \/ MarkProcessed
  \/ ProcessExistingBlocks

SpecLabel == InitLabel /\ [][NextLabel]_vars

(***************************************************************************)
(* cleanupMermaidErrorElements called directly, as the unit tests do, on   *)
(* documents that hold elements keyed by several render ids.               *)
(***************************************************************************)
\* the render counters whose ids key the elements of these documents
CleanupCounters == <<1, 2, 10, 11>>

OtherElement == <<"otherElement", 0>>

\* body children: for each chosen k a div#d{id} and/or an error svg#{id}
\* (the svg inside the div when nested), and an unrelated element
CleanupDocument(divs, svgs, nested, other) ==
  LET id(k) == UniqueId(CleanupCounters[k])
      inDiv(k) == nested /\ k \in divs
      top == SeqFilter([i \in 1..(2 * Len(CleanupCounters)) |->
                          IF i % 2 = 1 THEN PollutionDiv((i + 1) \div 2)
                          ELSE PollutionSvg(i \div 2)],
                       {PollutionDiv(k) : k \in divs}
                         \cup {PollutionSvg(k) : k \in {j \in svgs : ~inDiv(j)}})
      bodyKids == IF other THEN top \o <<OtherElement>> ELSE top
      nodes == {Body} \cup {PollutionDiv(k) : k \in divs} \cup {PollutionSvg(k) : k \in svgs}
                 \cup (IF other THEN {OtherElement} ELSE {})
  IN [n \in nodes |->
        IF n = Body THEN [El("body", {}, {}, <<>>) EXCEPT !.kids = bodyKids]
        ELSE IF n = OtherElement
          THEN [El("div", {}, {}, <<>>) EXCEPT !.id = <<"some-other-element">>, !.parent = Body]
        ELSE IF n[1] = "pollutionDiv"
          THEN [El("div", {}, {}, <<>>) EXCEPT
                  !.id = <<"d">> \o id(n[2]), !.parent = Body,
                  !.kids = IF nested /\ n[2] \in svgs THEN <<PollutionSvg(n[2])>> ELSE <<>>]
        ELSE [El("svg", {}, {<<"aria-roledescription", "error">>}, <<>>) EXCEPT
                  !.id = id(n[2]),
                  !.parent = IF inDiv(n[2]) THEN PollutionDiv(n[2]) ELSE Body]]

InitCleanup ==
  /\ \E divs \in SUBSET (1..Len(CleanupCounters)), svgs \in SUBSET (1..Len(CleanupCounters)),
        nested \in BOOLEAN, other \in BOOLEAN :
       dom = CleanupDocument(divs, svgs, nested, other)
  /\ config = getPlatformConfig("chatgpt")
  /\ started = FALSE
  /\ observing = FALSE
  /\ renderCounter = 0
  /\ tasks = <<>>
  /\ timers = {}
  /\ rafQueue = 0
  /\ frameBatch = 0
  /\ hostname = selectors[config.platform].hostname
  /\ mainPlatform = config.platform
  /\ mainPc = "initRenderer"
  /\ errorLog = <<>>

\* cleanupMermaidErrorElements(renderId) is called
CleanupCall ==
  /\ \E k \in 1..Len(CleanupCounters) :
       dom' = cleanupMermaidErrorElements(dom, UniqueId(CleanupCounters[k]))
  /\ UNCHANGED <<errorLog, hostname, mainPlatform, mainPc, config, started, observing, renderCounter, tasks, timers,
                 rafQueue, frameBatch>>

NextCleanup == CleanupCall

SpecCleanup == InitCleanup /\ [][NextCleanup]_vars

(***************************************************************************)
(* Properties.                                                             *)
(***************************************************************************)
RECURSIVE SelfAndAncestors(_, _)
SelfAndAncestors(d, n) ==
  IF d[n].parent = None THEN {n} ELSE {n} \cup SelfAndAncestors(d, d[n].parent)

CarriesMarker(d, n) == \E a \in SelfAndAncestors(d, n) : ProcessedAttr \in d[a].attrs

\* the code element whose text is the source of candidate el
CandidateCode(d, el) ==
  IF config.platform = "grok" THEN querySelector(d, el, "pre code") ELSE el

EmptySource(d, el) ==
  CandidateCode(d, el) = None \/ Trim(textContent(d, CandidateCode(d, el))) = <<>>

\* the step is a findUnprocessedMermaidBlocks + renderMermaidBlock sweep
SweepStep == started' # started \/ frameBatch' = frameBatch - 1

\* the step settles render r of renderMermaidBlock and attaches its container
CommitStep(r) ==
  /\ tasks[r].fn = "renderMermaidBlock"
  /\ tasks[r].pc = "await"
  /\ tasks'[r].pc = "done"
  /\ IsAttached(dom', Container(r))

\* the pre > code of the artifact of render r holds the trimmed source under
\* the class language-mermaid
SourcePreserved(r) ==
  LET code == querySelector(dom', Container(r), "pre code")
  IN /\ code # None
     /\ dom'[code].cls = {"language-mermaid"}
     /\ textContent(dom', code) = Trim(tasks[r].rawText)
     /\ Trim(tasks[r].rawText) # <<>>

\* C1 (as amended): on every platform and for both render outcomes, an artifact
\* that is committed holds a pre > code element with class exactly
\* language-mermaid whose text is the trimmed text of the candidate; the pre is
\* hidden when the render succeeded and shown (display block) when it failed;
\* no artifact is produced for an empty trimmed text.
C1_RoundTrip ==
  [][\A r \in DOMAIN tasks :
       CommitStep(r) =>
         /\ SourcePreserved(r)
         /\ dom'[SourceWrapper(r)].display = IF tasks'[r].hasError THEN "block" ELSE "none"]_vars

C1_Witness ==
  \E r \in DOMAIN tasks :
    /\ tasks[r].pc = "done" /\ tasks[r].hasError
    /\ IsAttached(dom, Container(r))
    /\ tasks[r].rawText # Trim(tasks[r].rawText)
    /\ textContent(dom, SourceCodeEl(r)) = Trim(tasks[r].rawText)

\* C1 as stated: the pre > code of every committed artifact is hidden,
\* for both render outcomes
C1_Original ==
  [][\A r \in DOMAIN tasks :
       CommitStep(r) =>
         /\ SourcePreserved(r)
         /\ dom'[SourceWrapper(r)].display = "none"]_vars

\* C2: under each strategy, findUnprocessedMermaidBlocks never returns an
\* element that carries the processed marker itself or below a marked ancestor.
C2_Idempotence ==
  \A el \in Range(findUnprocessedMermaidBlocks(dom, config)) : ~CarriesMarker(dom, el)

\* a qualifying block under a marked ancestor has been swept and is left out
C2_Witness ==
  /\ started
  /\ \E b \in 1..MaxBlocks :
       LET el == IF config.platform = "grok" THEN HostWrapper(b) ELSE HostCode(b)
       IN /\ el \in DOMAIN dom
          /\ IsAttached(dom, el)
          /\ ~EmptySource(dom, el)
          /\ ProcessedAttr \notin dom[el].attrs
          /\ CarriesMarker(dom, el)
          /\ el \notin Range(findUnprocessedMermaidBlocks(dom, config))
          /\ \A r \in DOMAIN tasks : tasks[r].element # el

\* C3 as stated: no candidate is handed to the renderer more than once
C3_AtMostOnce ==
  \A i, j \in DOMAIN tasks : tasks[i].element = tasks[j].element => i = j

\* candidate el has been replaced by an artifact that presents the outcome
ReplacedBy(el, failed) ==
  /\ ~IsAttached(dom, el)
  /\ \E q \in DOMAIN tasks :
       /\ tasks[q].element = el
       /\ IsAttached(dom, Container(q))
       /\ IF failed
          THEN /\ dom[RenderedDiv(q)].kids = <<ErrorEl(q)>>
               /\ "mpr-error-container" \in dom[RenderedDiv(q)].cls
               /\ dom[SourceWrapper(q)].display = "block"
          ELSE /\ dom[RenderedDiv(q)].html # NoHtml
               /\ dom[RenderedDiv(q)].html[1] = "svg"
               /\ dom[RenderedDiv(q)].display # "none"
               /\ dom[SourceWrapper(q)].display = "none"

\* the renders dispatched by the sweep that began at counter value s
Batch(s) == {r \in DOMAIN tasks : tasks[r].fn = "renderMermaidBlock" /\ tasks[r].batch = s}

\* C4 as stated: once the renders of a sweep have settled and exactly one of
\* them failed, every candidate whose render succeeded is replaced by an
\* artifact showing the markup and the failing one by an artifact showing the
\* error with its source visible
C4_ErrorIsolation ==
  \A s \in 0..MaxRenders :
    ( /\ \A r \in Batch(s) : tasks[r].pc = "done"
      /\ Cardinality({r \in Batch(s) : tasks[r].hasError}) = 1 )
    => \A r \in Batch(s) : ReplacedBy(tasks[r].element, tasks[r].hasError)

\* the blocks a sweep from the current state finds whose source is empty
EmptyFound ==
  {el \in Range(findUnprocessedMermaidBlocks(dom, config)) : EmptySource(dom, el)}

\* C5: a sweep leaves the live document as it was, draws one id per found
\* block with non-empty source and none for a block whose trimmed source is
\* empty, and invokes the renderer for no such block.
C5_EmptySkip ==
  [][SweepStep =>
       LET found == findUnprocessedMermaidBlocks(dom, config)
       IN /\ Preorder(dom', Body) = Preorder(dom, Body)
          /\ \A n \in DOMAIN dom : IsAttached(dom, n) => dom'[n] = dom[n]
          /\ renderCounter' = renderCounter + Len(found) - Cardinality(EmptyFound)
          /\ Len(tasks') = Len(tasks) + Len(found) - Cardinality(EmptyFound)
          /\ \A el \in EmptyFound :
               \A r \in DOMAIN tasks' : r > Len(tasks) => tasks'[r].element # el]_vars

\* every sweep requested has run over a block of whitespace, nothing was rendered
C5_Witness ==
  /\ started /\ rafQueue = 0 /\ frameBatch = 0
  /\ config.detection = "className"
  /\ EmptyFound # {}
  /\ renderCounter = 0

\* C6 as stated: a block skipped for its empty source is left out by the
\* findUnprocessedMermaidBlocks call that follows the sweep
C6_Original ==
  [][SweepStep =>
       \A el \in EmptyFound : el \notin Range(findUnprocessedMermaidBlocks(dom', config))]_vars

\* C6 (as amended): a block skipped for its empty source is not marked
\* processed; neither it nor an ancestor carries the marker after the sweep,
\* and the next findUnprocessedMermaidBlocks call returns it again.
C6_SkippedStaysUnmarked ==
  [][SweepStep =>
       \A el \in EmptyFound :
         /\ ~CarriesMarker(dom', el)
         /\ el \in Range(findUnprocessedMermaidBlocks(dom', config))]_vars

\* a labelled grok block with empty code has been swept and is still found
C6_Witness ==
  /\ started /\ rafQueue = 0 /\ frameBatch = 0
  /\ config.detection = "languageLabel"
  /\ \E el \in EmptyFound : ~CarriesMarker(dom, el)

\* the candidate element of the b-th block of the page
HostCandidate(b) == IF config.platform = "grok" THEN HostWrapper(b) ELSE HostCode(b)

\* block b is in the observed document and qualifies with non-empty source
Qualifies(b) ==
  /\ started
  /\ HostCandidate(b) \in DOMAIN dom
  /\ HostCandidate(b) \in Range(findUnprocessedMermaidBlocks(dom, config))
  /\ ~EmptySource(dom, HostCandidate(b))

\* an artifact stands where block b stood
Replaced(b) ==
  /\ HostCandidate(b) \in DOMAIN dom
  /\ ~IsAttached(dom, HostRoot(config.platform, b))
  /\ \E r \in DOMAIN tasks :
       tasks[r].element = HostCandidate(b) /\ IsAttached(dom, Container(r))

\* C7: with frames firing and renders settling, a qualifying block with
\* non-empty source present in the observed document after startup is
\* eventually replaced by an artifact.
C7_EventuallyTransformed ==
  \A b \in 1..MaxLiveBlocks : Qualifies(b) ~> Replaced(b)

\* a block found only by a sweep the observer scheduled has been replaced
C7_Witness ==
  \E r \in DOMAIN tasks :
    /\ tasks[r].via = "requestAnimationFrame"
    /\ tasks[r].pc = "done"
    /\ IsAttached(dom, Container(r))
    /\ \A q \in DOMAIN tasks :
         tasks[q].element = tasks[r].element => tasks[q].via = "requestAnimationFrame"

\* C8 as stated: at most one sweep runs in an animation frame
C8_Coalesced == frameBatch <= 1

\* C9: the counter starts at zero and never decreases, and no two invocations
\* of the renderer, from renderMermaidBlock or renderGrokMermaidBlock, receive
\* the same id.
C9_UniqueRenderIds ==
  /\ renderCounter = 0
  /\ [](\A i, j \in DOMAIN tasks : i # j => tasks[i].uniqueId # tasks[j].uniqueId)
  /\ [][renderCounter' >= renderCounter]_vars

\* renders of both functions are in flight at once
C9_Witness ==
  \E i, j \in DOMAIN tasks :
    /\ tasks[i].fn = "renderMermaidBlock" /\ tasks[i].pc = "await"
    /\ tasks[j].fn = "renderGrokMermaidBlock" /\ tasks[j].pc = "await"

\* C10 as stated: a cleanup for an id removes only elements whose id is that
\* id or "d" followed by it (and what they contain)
C10_CleanupPrecise ==
  [][\A k \in 1..Len(CleanupCounters) :
       LET id == UniqueId(CleanupCounters[k])
       IN dom' = cleanupMermaidErrorElements(dom, id) =>
            \A n \in DOMAIN dom :
              (IsAttached(dom, n) /\ ~IsAttached(dom', n)) =>
                \E a \in SelfAndAncestors(dom, n) : dom[a].id \in {id, <<"d">> \o id}]_vars

\* the elements of the document keyed by render id: #id and #d{id}
Polluting(d, id) ==
  {n \in DOMAIN d : IsAttached(d, n) /\ d[n].id \in {id, <<"d">> \o id}}

\* C11: the step on which render r fails leaves no element keyed by its id in
\* the document and schedules one further cleanup for that id (none was
\* pending, and none is ever scheduled for a render that is not failing at
\* that step); when the scheduled cleanup runs, the elements injected under
\* that id since the failure are gone from the document.
C11_TwoCleanups ==
  [][\A r \in DOMAIN tasks :
       /\ (tasks[r].pc = "await" /\ tasks'[r].pc = "done" /\ tasks'[r].hasError)
            => (r \notin timers /\ r \in timers'
                  /\ Polluting(dom', tasks[r].uniqueId) = {})
       /\ (r \notin timers /\ r \in timers')
            => (tasks[r].pc = "await" /\ tasks'[r].pc = "done" /\ tasks'[r].hasError)
       /\ (r \in timers /\ r \notin timers')
            => (tasks[r].hasError /\ Polluting(dom', tasks[r].uniqueId) = {})]_vars

\* between the two cleanups of a failed render the renderer has injected an
\* element under its id
C11_Witness ==
  \E r \in DOMAIN tasks :
    /\ tasks[r].pc = "done" /\ tasks[r].hasError
    /\ r \in timers
    /\ Polluting(dom, tasks[r].uniqueId) # {}

\* ids a cleanup is called with: those the counter yields, the id of the
\* unit tests, and one that makes `#${id}` a selector syntax error
CleanupIds ==
  {UniqueId(CleanupCounters[k]) : k \in 1..Len(CleanupCounters)} \cup {<<"test-id">>, <<"1">>}

\* no element of the document matches a selector of the cleanup for id
MatchesNone(d, id) ==
  \A n \in DOMAIN d :
    IsAttached(d, n) => (d[n].id # id /\ ~(d[n].id # <<>> /\ IsPrefix(<<"d">> \o id, d[n].id)))

\* C12: on every document and for every id, cleanupMermaidErrorElements is
\* defined (a selector that is a syntax error is skipped), a second call right
\* after the first changes nothing, and a call that matches no element
\* changes nothing.
C12_CleanupIdempotent ==
  \A id \in CleanupIds :
    LET once == cleanupMermaidErrorElements(dom, id)
    IN /\ cleanupMermaidErrorElements(once, id) = once
       /\ MatchesNone(dom, id) => once = dom

\* a cleanup has removed elements and others that a further call removes remain
C12_Witness ==
  /\ \E n \in DOMAIN dom : n # Body /\ ~IsAttached(dom, n)
  /\ \E id \in CleanupIds : cleanupMermaidErrorElements(dom, id) # dom
  /\ \E id \in CleanupIds : ~ValidIdSelector(id) /\ cleanupMermaidErrorElements(dom, id) = dom

\* the toggle of artifact r is in the state 'showing source' in document d
\* (the button's label and title are set together with showingSource)
ShowingSource(d, r) == d[ToggleBtn(r)].title = "Show diagram"

\* the step settles render r of renderMermaidBlock
SettleStep(r) ==
  tasks[r].fn = "renderMermaidBlock" /\ tasks[r].pc = "await" /\ tasks'[r].pc = "done"

\* C13: when a render settles, the display region of its artifact carries
\* mpr-error-container if and only if the render failed, and the toggle starts
\* as 'showing source' (source shown, button offering the diagram) if and only
\* if the render failed, else as 'showing rendered output'.
C13_ToggleDefault ==
  [][\A r \in DOMAIN tasks :
       SettleStep(r) =>
         /\ ("mpr-error-container" \in dom'[RenderedDiv(r)].cls) <=> tasks'[r].hasError
         /\ ShowingSource(dom', r) <=> tasks'[r].hasError
         /\ dom'[ToggleBtn(r)].title =
              IF tasks'[r].hasError THEN "Show diagram" ELSE "Show source code"
         /\ dom'[ToggleBtn(r)].html = IF tasks'[r].hasError THEN <<"play">> ELSE <<"{ }">>
         /\ (dom'[SourceWrapper(r)].display # "none") <=> tasks'[r].hasError
         /\ dom'[ToggleBtn(r)].parent = Container(r)]_vars

\* a failed and a succeeded render have both been committed
C13_Witness ==
  \E i, j \in DOMAIN tasks :
    /\ tasks[i].pc = "done" /\ tasks[i].hasError /\ IsAttached(dom, ToggleBtn(i))
    /\ ShowingSource(dom, i)
    /\ tasks[j].pc = "done" /\ ~tasks[j].hasError /\ IsAttached(dom, ToggleBtn(j))
    /\ ~ShowingSource(dom, j)

Visible(d, n) == d[n].display # "none"

\* the step is a click on the toggle of artifact r
ClickStep(r) ==
  ToggleBtn(r) \in DOMAIN dom /\ dom'[ToggleBtn(r)].title # dom[ToggleBtn(r)].title

\* C14 (as amended): a region of an artifact is always visible; after a click
\* exactly one of the source region and the display region is visible, the
\* source exactly when the toggle is 'showing source', and the click flips the
\* toggle; both are visible only in the initial state of a failed render
\* (initialShowSource true), which lasts until the first click, since other
\* steps leave both regions as they are.
C14_ToggleExclusive ==
  [][\A r \in DOMAIN tasks' :
       ToggleBtn(r) \in DOMAIN dom' =>
         LET src == Visible(dom', SourceWrapper(r))
             ren == Visible(dom', RenderedDiv(r))
         IN /\ src \/ ren
            /\ (src /\ ren) => (tasks'[r].hasError /\ ShowingSource(dom', r) /\ ~ClickStep(r))
            /\ ClickStep(r) =>
                 /\ src # ren
                 /\ src <=> ShowingSource(dom', r)
                 /\ ShowingSource(dom', r) # ShowingSource(dom, r)
            /\ (ToggleBtn(r) \in DOMAIN dom /\ ~ClickStep(r)) =>
                 /\ dom'[SourceWrapper(r)].display = dom[SourceWrapper(r)].display
                 /\ dom'[RenderedDiv(r)].display = dom[RenderedDiv(r)].display]_vars

\* the toggle of a failed render has been clicked: the diagram region alone shows
C14_Witness ==
  \E r \in DOMAIN tasks :
    /\ tasks[r].pc = "done" /\ tasks[r].hasError
    /\ IsAttached(dom, ToggleBtn(r))
    /\ ~ShowingSource(dom, r)
    /\ ~Visible(dom, SourceWrapper(r)) /\ Visible(dom, RenderedDiv(r))

\* C14 as stated: in the initial state of an artifact and after any number of
\* clicks exactly one of the two regions is visible
C14_Original ==
  \A r \in DOMAIN tasks :
    ToggleBtn(r) \in DOMAIN dom =>
      Visible(dom, SourceWrapper(r)) # Visible(dom, RenderedDiv(r))

\* the registry positions of the descriptors whose match substring h contains
MatchIndexes(h) ==
  {i \in 1..Len(PlatformKeys) : Includes(h, selectors[PlatformKeys[i]].hostname)}

\* the first descriptor, in registry order, whose match substring h contains
FirstMatching(h) ==
  PlatformKeys[CHOOSE i \in MatchIndexes(h) : \A j \in MatchIndexes(h) : i <= j]

\* h matches no descriptor, or the descriptor it is identified with is grok
InertHostname(h) == MatchIndexes(h) = {} \/ FirstMatching(h) = "grok"

\* nothing of the renderer has run: no initRenderer (hence no detector call, no
\* observer), no render, and every node of the document is the page's own
RendererInert ==
  /\ ~started /\ ~observing /\ config = NoConfig
  /\ renderCounter = 0 /\ tasks = <<>> /\ timers = {}
  /\ rafQueue = 0 /\ frameBatch = 0
  /\ \A n \in DOMAIN dom :
       \/ n[1] \in {"body", "head", "pre", "code", "wrapper", "label", "button"}
       \/ n = LoaderScript /\ mainPc \in {"loading", "loadFailed"}

C16_Identify ==
  (mainPc # "start") =>
    /\ mainPlatform = Null <=> MatchIndexes(hostname) = {}
    /\ mainPlatform # Null =>
         /\ mainPlatform \in Platform
         /\ Includes(hostname, selectors[mainPlatform].hostname)
         /\ mainPlatform = FirstMatching(hostname)
    /\ Cardinality(MatchIndexes(hostname)) <= 1 =>
         \A p \in Platform :
           mainPlatform = p <=> Includes(hostname, selectors[p].hostname)

\* a hostname with a prefix before gemini's match substring was identified
C16_Witness ==
  /\ mainPc = "loading"
  /\ mainPlatform = "gemini"
  /\ hostname # selectors["gemini"].hostname
  /\ Cardinality(MatchIndexes(hostname)) = 1

\* C16 as stated: for every platform and every hostname, the identifier is
\* returned if and only if the hostname contains the platform's match substring
C16_Original ==
  (mainPc # "start") =>
    \A p \in Platform :
      mainPlatform = p <=> Includes(hostname, selectors[p].hostname)

\* the text is whitespace, then a token (up to the next whitespace or the end)
\* that is a keyword when lower-cased
FirstTokenIsKeyword(t) ==
  \E i \in 1..Len(t) : \E j \in i..Len(t) :
    /\ \A k \in 1..(i - 1) : t[k] \in Whitespace
    /\ \A k \in i..j : t[k] \notin Whitespace
    /\ j = Len(t) \/ t[j + 1] \in Whitespace
    /\ ToLowerCase(SubSeq(t, i, j)) \in MERMAID_KEYWORDS

UpperChar(c) ==
  IF \E i \in 1..Len(Lower) : Lower[i] = c
  THEN Upper[CHOOSE i \in 1..Len(Lower) : Lower[i] = c]
  ELSE c

\* the text with the case of every letter changed
SwapCase(t) ==
  [i \in 1..Len(t) |-> IF LowerChar(t[i]) # t[i] THEN LowerChar(t[i]) ELSE UpperChar(t[i])]

\* C17: isMermaidContent(text) is true exactly when the first
\* whitespace-delimited token of the text, lower-cased, is a keyword, whatever
\* follows the token; leading whitespace and letter case do not change the
\* result; it is false for empty and whitespace-only text; and the contentBased
\* sweep dispatches the block exactly in that case.
C17_Classifier ==
  LET t == dom[HostCode(1)].text
  IN /\ isMermaidContent(t) <=> FirstTokenIsKeyword(t)
     /\ \A ws \in {<<" ">>, <<"\n", "\t">>} : isMermaidContent(ws \o t) <=> isMermaidContent(t)
     /\ isMermaidContent(SwapCase(t)) <=> isMermaidContent(t)
     /\ isMermaidContent(ToLowerCase(t)) <=> isMermaidContent(t)
     /\ Trim(t) = <<>> => ~isMermaidContent(t)
     /\ tasks = <<>> =>
          (SweepResult("processExistingBlocks").tasks # <<>> <=> FirstTokenIsKeyword(t))
     /\ tasks # <<>> => FirstTokenIsKeyword(t)

\* a block whose text has leading whitespace, an upper-case keyword and more
\* text after it was dispatched
C17_Witness ==
  /\ tasks # <<>>
  /\ LET t == dom[HostCode(1)].text
     IN /\ Len(t) > 4
        /\ t[1] \in Whitespace
        /\ SubSeq(t, 2, 4) = <<"P", "I", "E">>
        /\ t[Len(t)] \notin Whitespace

\* the b-th container has a label child whose text is whitespace, the word
\* mermaid in any case, whitespace
LabelledMermaid(b) ==
  /\ dom[HostLabel(b)].parent = HostWrapper(b)
  /\ LET t == dom[HostLabel(b)].text
     IN \E i \in 1..Len(t) :
          /\ i + Len(MermaidWord) - 1 <= Len(t)
          /\ ToLowerCase(SubSeq(t, i, i + Len(MermaidWord) - 1)) = MermaidWord
          /\ \A k \in 1..Len(t) :
               (k < i \/ k > i + Len(MermaidWord) - 1) => t[k] \in Whitespace

\* C18: under the languageLabel strategy findUnprocessedMermaidBlocks returns a
\* container exactly when it is unprocessed (no marker on it or on an ancestor)
\* and the trimmed, lower-cased text of its label child is 'mermaid'; a
\* container with another label or with no label is left out even when its code
\* is diagram text; the containers a sweep dispatched were all of that kind.
C18_AdjacentLabel ==
  /\ \A b \in 1..2 :
       (HostWrapper(b) \in Range(findUnprocessedMermaidBlocks(dom, config)))
         <=> (~CarriesMarker(dom, HostWrapper(b)) /\ LabelledMermaid(b))
  /\ \A r \in DOMAIN tasks :
       \E b \in 1..2 : tasks[r].element = HostWrapper(b) /\ LabelledMermaid(b)

\* a sweep found the container labelled ' MERMAID' and left out one with
\* diagram text that has no label or another label
C18_Witness ==
  /\ Len(tasks) = 1
  /\ tasks[1].element = HostWrapper(1)
  /\ dom[HostLabel(1)].text # MermaidWord
  /\ isMermaidContent(dom[HostCode(2)].text)
  /\ ~CarriesMarker(dom, HostWrapper(2))
  /\ dom[HostLabel(2)].parent = None

\* the element the commit of render r is to replace, from the layout of the
\* page: the container div on grok, the pre around the code elsewhere
CommitTarget(r) ==
  LET el == tasks[r].element
  IN IF config.platform = "grok" THEN HostWrapper(el[2]) ELSE HostPre(el[2])

\* C19: the element replaced at commit is the candidate itself under grok and
\* the candidate's parent under the other descriptors; when a render settles
\* while that element is in the document, the element and the candidate leave
\* the document and the artifact container stands at the element's position
\* under the same parent, the siblings unchanged.
C19_CommitTarget ==
  [][\A r \in DOMAIN tasks :
       SettleStep(r) =>
         LET el == tasks[r].element
             w == CommitTarget(r)
         IN /\ config.platform = "grok" => w = el
            /\ config.platform # "grok" => w = dom[el].parent
            /\ getWrapperToReplace(dom, el, config) = w
            /\ IsAttached(dom, w) =>
                 LET p == dom[w].parent
                 IN /\ ~IsAttached(dom', w)
                    /\ ~IsAttached(dom', el)
                    /\ IsAttached(dom', Container(r))
                    /\ dom'[Container(r)].parent = p
                    /\ Len(dom'[p].kids) = Len(dom[p].kids)
                    /\ \A i \in 1..Len(dom[p].kids) :
                         dom'[p].kids[i] = IF dom[p].kids[i] = w THEN Container(r)
                                           ELSE dom[p].kids[i]]_vars

\* an artifact stands where the first of two blocks stood, before the second
C19_Witness ==
  \E r \in DOMAIN tasks :
    /\ tasks[r].fn = "renderMermaidBlock"
    /\ tasks[r].pc = "done"
    /\ Len(dom[Body].kids) = 2
    /\ dom[Body].kids[1] = Container(r)
    /\ dom[Body].kids[2][1] \in {"pre", "wrapper"}

\* the step settles render r through the outer catch
NullStep(r) == SettleStep(r) /\ tasks'[r].result = NullResult

\* C20 (as amended): an exception thrown in extraction, shell construction,
\* the failure path, toggle creation or commit is caught by the call it
\* happened in: the call logs it and yields no artifact (null), the document
\* and every other call are left as they were, the sweep dispatches each of
\* its other candidates, and the observer stays subscribed with the pending
\* frames kept.  An exception thrown while the resolved markup is assigned,
\* inside the inner try, is handled as a render failure: the call resolves to
\* its container and nothing is logged.
C20_Containment ==
  [][/\ \A r \in DOMAIN tasks :
          /\ NullStep(r) =>
               /\ errorLog' = Append(errorLog, tasks[r].element)
               /\ ~IsAttached(dom', Container(r))
               /\ Preorder(dom', Body) = Preorder(dom, Body)
               /\ \A q \in DOMAIN tasks \ {r} : tasks'[q] = tasks[q]
               /\ started' = started /\ observing' = observing
               /\ rafQueue' = rafQueue /\ frameBatch' = frameBatch
          /\ (SettleStep(r) /\ ~NullStep(r)) =>
               /\ tasks'[r].result = Container(r)
               /\ errorLog' = errorLog
     /\ SweepStep =>
          LET found == findUnprocessedMermaidBlocks(dom, config)
              thrown == SubSeq(errorLog', Len(errorLog) + 1, Len(errorLog'))
              new == SubSeq(tasks', Len(tasks) + 1, Len(tasks'))
          IN /\ SubSeq(errorLog', 1, Len(errorLog)) = errorLog
             /\ SubSeq(tasks', 1, Len(tasks)) = tasks
             /\ Range(thrown) \subseteq Range(found)
             /\ Len(new) + Len(thrown) = Len(found)
             /\ \A el \in Range(found) :
                  (el \in Range(thrown)) # (\E i \in 1..Len(new) : new[i].element = el)
     /\ started => (started' /\ observing')]_vars

\* the call for a candidate threw in a sweep that dispatched another candidate,
\* and a later sweep of the observer rendered the candidate
C20_Witness ==
  /\ Len(errorLog) = 1
  /\ \A t \in DOMAIN tasks : tasks[t].result # NullResult
  /\ \E r \in DOMAIN tasks, q \in DOMAIN tasks :
       /\ tasks[q].via = "processExistingBlocks"
       /\ tasks[q].element # errorLog[1]
       /\ tasks[r].element = errorLog[1]
       /\ tasks[r].via = "requestAnimationFrame"
       /\ tasks[r].result = Container(r)
       /\ IsAttached(dom, Container(r))

\* C20 as stated: a call in which an exception was thrown, at whatever step,
\* has resolved to null
C20_Original ==
  \A r \in DOMAIN tasks :
    (/\ tasks[r].pc = "done"
     /\ ErrorEl(r) \in DOMAIN dom
     /\ tasks[r].err = AssignError) => tasks[r].result = NullResult

\* pattern k of the list matches the diagnostic s somewhere, any letter case
PatternFound(s, k) ==
  LET p == ERROR_PATTERNS[k]
  IN \E i \in 1..Len(s) :
       /\ i + Len(p.phrase) - 1 <= Len(s)
       /\ \A j \in 1..Len(p.phrase) : LowerChar(s[i + j - 1]) = LowerChar(p.phrase[j])
       /\ k = 1 => (i + Len(p.phrase) <= Len(s) /\ s[i + Len(p.phrase)] \in DigitChars)

\* C21: whatever value the render failed with, the error presented has the
\* non-empty summary; its details are those of the first pattern of the list
\* that matches the diagnostic string (for the line pattern, the fixed text
\* followed by digits that stand in the diagnostic), and it has no details
\* when no pattern matches.  The diagnostic is the message of an Error, 'null',
\* 'undefined', or the text of the value.
C21_ErrorFormatting ==
  \A r \in DOMAIN tasks :
    (tasks[r].pc = "done" /\ tasks[r].hasError) =>
      LET shown == dom[ErrorEl(r)].html
          error == tasks[r].err
          s == parseErrorMessage(error).originalError
          found == {k \in 1..Len(ERROR_PATTERNS) : PatternFound(s, k)}
      IN /\ shown[2] # <<>> /\ shown[2] = UserMessage
         /\ error[1] = "null" => s = <<"n", "u", "l", "l">>
         /\ error[1] \in {"Error", "string", "number"} => s = error[2]
         /\ found = {} <=> shown[3] = NoDetails
         /\ found # {} =>
              LET k == CHOOSE m \in found : \A n \in found : m <= n
                  fixed == ERROR_PATTERNS[k].details
              IN /\ IsPrefix(fixed, shown[3])
                 /\ k # 1 => shown[3] = fixed
                 /\ k = 1 =>
                      LET digits == SubSeq(shown[3], Len(fixed) + 1, Len(shown[3]))
                      IN /\ digits # <<>>
                         /\ \A i \in 1..Len(digits) : digits[i] \in DigitChars
                         /\ Includes(ToLowerCase(s),
                                     ToLowerCase(ERROR_PATTERNS[1].phrase) \o digits)

\* a diagnostic that holds the third pattern before the second was presented
\* with the details of the second
C21_Witness ==
  \E r \in DOMAIN tasks :
    /\ tasks[r].pc = "done"
    /\ tasks[r].err[1] = "string"
    /\ PatternFound(tasks[r].err[2], 2) /\ PatternFound(tasks[r].err[2], 3)
    /\ ~PatternFound(tasks[r].err[2], 1)
    /\ IsPrefix(<<"S", "Y", "N", "T", "A", "X">>, tasks[r].err[2])
    /\ dom[ErrorEl(r)].html[3] = ERROR_PATTERNS[2].details

\* C22 as stated: when a call of renderMermaidBlock resolves to a container,
\* the container is in the document, under the parent and at the index the
\* element to replace had
C22_ReturnedAttached ==
  [][\A r \in DOMAIN tasks :
       (SettleStep(r) /\ tasks'[r].result = Container(r)) =>
         LET w == getWrapperToReplace(dom, tasks[r].element, config)
         IN /\ IsAttached(dom', Container(r))
            /\ IsAttached(dom, w)
            /\ dom'[Container(r)].parent = dom[w].parent
            /\ IndexOf(dom'[dom[w].parent].kids, Container(r))
                 = IndexOf(dom[dom[w].parent].kids, w)]_vars

\* the containers in the document that renderMermaidBlock built for candidate el
ArtifactsOf(el) ==
  {r \in DOMAIN tasks : /\ tasks[r].fn = "renderMermaidBlock"
                        /\ tasks[r].element = el
                        /\ IsAttached(dom, Container(r))}

\* C23: at any time the document holds at most one artifact container built
\* for any one candidate, however many renders of the candidate were
\* dispatched: a commit whose element to replace has left the document
\* inserts nothing.
C23_OneArtifact ==
  \A r \in DOMAIN tasks : Cardinality(ArtifactsOf(tasks[r].element)) <= 1

\* two renders of one candidate have settled: the container of one is in the
\* document, the container of the other is not
C23_Witness ==
  \E i, j \in DOMAIN tasks :
    /\ i # j
    /\ tasks[i].element = tasks[j].element
    /\ tasks[i].pc = "done" /\ tasks[j].pc = "done"
    /\ tasks[i].result = Container(i) /\ tasks[j].result = Container(j)
    /\ IsAttached(dom, Container(i))
    /\ ~IsAttached(dom, Container(j))
    /\ ~IsAttached(dom, tasks[i].element)

\* the live document: the nodes of d connected to the body, with their content
Live(d) == [n \in {m \in DOMAIN d : IsAttached(d, m)} |-> d[n]]

\* node n of d is a or lies below a
Inside(d, n, a) == a \in SelfAndAncestors(d, n)

\* C24: while a render dispatched by renderMermaidBlock is in flight, the
\* container, the source region, the display region and the toggle built for
\* it are outside the live document; and a step that settles a render
\* successfully changes the live document by the replacement only: the element
\* to replace and what is below it leave, the container and what is below it
\* enter in its place, and every other node is as it was.  When the element to
\* replace has already left the document the step changes nothing in it.
C24_SingleMutation ==
  [][\A r \in DOMAIN tasks' :
       /\ (tasks'[r].fn = "renderMermaidBlock" /\ tasks'[r].pc = "await") =>
            \A n \in {Container(r), SourceWrapper(r), SourceCodeEl(r), RenderedDiv(r),
                      ToggleBtn(r)} : ~IsAttached(dom', n)
       /\ (r \in DOMAIN tasks /\ SettleStep(r) /\ ~tasks'[r].hasError) =>
            LET w == CommitTarget(r)
            IN IF ~IsAttached(dom, w) THEN Live(dom') = Live(dom)
               ELSE /\ \A n \in DOMAIN Live(dom) :
                         IF Inside(dom, n, w) THEN ~IsAttached(dom', n)
                         ELSE /\ IsAttached(dom', n)
                              /\ dom'[n] =
                                   IF n = dom[w].parent
                                   THEN [dom[n] EXCEPT !.kids =
                                          [i \in 1..Len(@) |-> IF @[i] = w THEN Container(r)
                                                               ELSE @[i]]]
                                   ELSE dom[n]
                    /\ \A n \in DOMAIN Live(dom') :
                         n \in DOMAIN Live(dom) \/ Inside(dom', n, Container(r))
                    /\ \A n \in {Container(r), SourceWrapper(r), SourceCodeEl(r),
                                 RenderedDiv(r), ToggleBtn(r)} : IsAttached(dom', n)]_vars

\* a render settled successfully and its artifact is in the document while
\* another render, dispatched before that commit, is still in flight
C24_Witness ==
  \E i, j \in DOMAIN tasks :
    /\ tasks[i].fn = "renderMermaidBlock" /\ tasks[j].fn = "renderMermaidBlock"
    /\ tasks[i].pc = "done" /\ ~tasks[i].hasError
    /\ IsAttached(dom, ToggleBtn(i))
    /\ tasks[j].pc = "await"
    /\ tasks[j].element # tasks[i].element
    /\ Container(j) \in DOMAIN dom /\ ~IsAttached(dom, Container(j))

\* the parts of the artifact of render r that present the candidate: the text
\* and class of the source, the markers of the container, and the class,
\* markup and children of the display region with the error shown in it
Presented(d, r) ==
  <<d[SourceCodeEl(r)].text, d[SourceCodeEl(r)].cls, d[SourceWrapper(r)].kids,
    d[Container(r)].attrs, d[Container(r)].cls, d[Container(r)].kids,
    d[RenderedDiv(r)].cls, d[RenderedDiv(r)].html, d[RenderedDiv(r)].kids,
    IF ErrorEl(r) \in DOMAIN d THEN <<d[ErrorEl(r)]>> ELSE <<>> >>

\* the display styles of the two regions and the label of the toggle
Shown(d, r) ==
  <<d[SourceWrapper(r)].display, d[RenderedDiv(r)].display,
    d[ToggleBtn(r)].html, d[ToggleBtn(r)].title>>

\* C25: once an artifact is committed, no step (sweep, completion of any
\* render, immediate or delayed cleanup for any render id, click) changes its
\* source text, language class, processed marker or the content of its display
\* region; the display styles of its regions and the label of its toggle
\* change on clicks on its toggle only.
C25_ArtifactImmutable ==
  [][\A r \in DOMAIN tasks :
       (tasks[r].pc = "done" /\ IsAttached(dom, Container(r))) =>
         /\ Presented(dom', r) = Presented(dom, r)
         /\ Shown(dom', r) # Shown(dom, r) => ClickStep(r) /\ tasks' = tasks /\ timers' = timers]_vars

\* a diagram stands rendered in the document, its toggle clicked, after the
\* render of another block failed and its delayed cleanup ran
C25_Witness ==
  \E i, j \in DOMAIN tasks :
    /\ tasks[i].pc = "done" /\ ~tasks[i].hasError
    /\ IsAttached(dom, Container(i))
    /\ dom[RenderedDiv(i)].html = Svg(tasks[i].uniqueId, tasks[i].sourceCode)
    /\ dom[ToggleBtn(i)].title = "Show diagram"
    /\ i < j
    /\ tasks[j].pc = "done" /\ tasks[j].hasError
    /\ IsAttached(dom, Container(j))
    /\ j \notin timers

\* the blocks a sweep from the current state finds whose source is not empty,
\* in document order
Dispatchable ==
  LET found == findUnprocessedMermaidBlocks(dom, config)
  IN SeqFilter(found, {el \in Range(found) : ~EmptySource(dom, el)})

\* C26: a sweep invokes the renderer for every block it found with non-empty
\* source before the completion of any render is handled: the step adds one
\* render in flight per such block, in document order, with consecutive ids
\* continuing the counter, and settles no render.  (That renders then complete
\* in any order is what the witness shows.)
C26_ConcurrentDispatch ==
  [][SweepStep =>
       LET blocks == Dispatchable
       IN /\ Len(tasks') = Len(tasks) + Len(blocks)
          /\ renderCounter' = renderCounter + Len(blocks)
          /\ \A k \in 1..Len(blocks) :
               LET t == tasks'[Len(tasks) + k]
               IN /\ t.element = blocks[k]
                  /\ t.uniqueId = UniqueId(renderCounter + k)
                  /\ t.pc = "await"
          /\ \A r \in DOMAIN tasks : tasks'[r] = tasks[r]]_vars

\* two blocks were dispatched by one sweep, and the artifact of the later one
\* is committed while the render of the earlier one is still in flight
C26_Witness ==
  \E i, j \in DOMAIN tasks :
    /\ i < j
    /\ tasks[i].batch = tasks[j].batch
    /\ tasks[i].fn = "renderMermaidBlock" /\ tasks[j].fn = "renderMermaidBlock"
    /\ tasks[i].element # tasks[j].element
    /\ tasks[i].pc = "await"
    /\ tasks[j].pc = "done"
    /\ IsAttached(dom, Container(j))
    /\ IsAttached(dom, tasks[i].element)

\* C27 as stated: a render that never settles is in flight in every state
\* after its dispatch, so the claim is about the states with a render in
\* flight: the candidate of a render in flight is in the document, not
\* replaced and without the processed marker on it or above it; and the
\* settling of another candidate's render commits that candidate whatever
\* else is in flight
C27_HungRender ==
  [][/\ \A r \in DOMAIN tasks' :
          (tasks'[r].fn = "renderMermaidBlock" /\ tasks'[r].pc = "await") =>
            /\ IsAttached(dom', tasks'[r].element)
            /\ ~CarriesMarker(dom', tasks'[r].element)
     /\ \A q \in DOMAIN tasks :
          (SettleStep(q) /\ IsAttached(dom, CommitTarget(q))) =>
            /\ IsAttached(dom', Container(q))
            /\ ~IsAttached(dom', tasks[q].element)]_vars

\* no sweep is scheduled and no render is in flight
Quiescent ==
  /\ rafQueue = 0 /\ frameBatch = 0
  /\ \A r \in DOMAIN tasks : tasks[r].pc = "done"

\* C28: when the page mutates finitely often and every render settles, the
\* renderer comes to rest, with no sweep scheduled and no render in flight,
\* although commits, injections of the external renderer and cleanup removals
\* each schedule a further sweep.
C28_Quiescence == <>[]Quiescent

\* at rest after the diagram was dispatched twice, one render failed, the
\* renderer had injected an element, and the delayed cleanup removed it
C28_Witness ==
  /\ Quiescent
  /\ started
  /\ timers = {}
  /\ Len(tasks) = 2
  /\ \E r \in DOMAIN tasks :
       /\ tasks[r].hasError
       /\ \E n \in {PollutionDiv(r), PollutionSvg(r)} : n \in DOMAIN dom /\ ~IsAttached(dom, n)
  /\ \E r \in DOMAIN tasks : IsAttached(dom, Container(r))

\* every render has settled, the renders of one candidate with one outcome,
\* and the page has inserted nothing since it was loaded
SettledAlike ==
  /\ started
  /\ NumBlocks = 1
  /\ \A r \in DOMAIN tasks : tasks[r].pc = "done"
  /\ \A i, j \in DOMAIN tasks :
       tasks[i].element = tasks[j].element => tasks[i].hasError = tasks[j].hasError

\* C29 as stated: the document reached once all renders have settled does
\* not depend on the order of completion, so it is the document reached when
\* the renders complete in the order of their dispatch: each candidate is
\* replaced by the artifact of the first render dispatched for it, with that
\* render's markup or error in the display region
C29_OrderIndependent ==
  SettledAlike =>
    \A r \in DOMAIN tasks :
      IsAttached(dom, Container(r)) =>
        \A q \in DOMAIN tasks : tasks[q].element = tasks[r].element => r <= q

\* C30: the source is read once, when the render is dispatched: each render a
\* sweep dispatches takes the trimmed text the candidate has at that moment,
\* and when the render settles and its artifact is committed, the hidden
\* source of the artifact and the text that was rendered are that text,
\* whatever the text of the candidate is by then.
C30_SourceSnapshot ==
  [][/\ SweepStep =>
          \A r \in DOMAIN tasks' \ DOMAIN tasks :
            /\ tasks'[r].rawText = textContent(dom, tasks'[r].element)
            /\ tasks'[r].sourceCode = Trim(textContent(dom, tasks'[r].element))
     /\ \A r \in DOMAIN tasks :
          /\ tasks'[r].rawText = tasks[r].rawText
          /\ tasks'[r].sourceCode = tasks[r].sourceCode
          /\ CommitStep(r) =>
               /\ textContent(dom', SourceCodeEl(r)) = Trim(tasks[r].rawText)
               /\ ~tasks'[r].hasError =>
                    dom'[RenderedDiv(r)].html = Svg(tasks[r].uniqueId, Trim(tasks[r].rawText))]_vars

\* an artifact is committed with the text its render was dispatched with,
\* and the candidate it replaced has another text
C30_Witness ==
  \E r \in DOMAIN tasks :
    /\ tasks[r].pc = "done" /\ ~tasks[r].hasError
    /\ IsAttached(dom, Container(r))
    /\ textContent(dom, SourceCodeEl(r)) = Trim(tasks[r].rawText)
    /\ dom[RenderedDiv(r)].html = Svg(tasks[r].uniqueId, Trim(tasks[r].rawText))
    /\ Trim(textContent(dom, tasks[r].element)) # Trim(tasks[r].rawText)
    /\ Trim(textContent(dom, tasks[r].element)) # <<>>

\* C31: initRenderer sweeps the blocks present and subscribes the observer in
\* one step, so from then on every qualifying block with non-empty source in
\* the document is covered: a render was dispatched for it, or a sweep is
\* requested or about to run.  The step of initRenderer itself dispatches
\* every such block present and leaves the observer subscribed.
C31_StartupOrdering ==
  /\ started =>
       /\ observing
       /\ \A k \in 1..Len(Dispatchable) :
            \/ \E r \in DOMAIN tasks : tasks[r].element = Dispatchable[k]
            \/ rafQueue + frameBatch > 0
  /\ ~started => (tasks = <<>> /\ ~observing /\ rafQueue = 0)

\* a block present at startup was dispatched by the initial sweep and a block
\* inserted afterwards by a sweep the observer requested
C31_Witness ==
  \E i, j \in DOMAIN tasks :
    /\ tasks[i].via = "processExistingBlocks"
    /\ tasks[j].via = "requestAnimationFrame"
    /\ tasks[i].element # tasks[j].element
    /\ rafQueue = 0 /\ frameBatch = 0

ToBeFound(n) ==
  /\ IsAttached(dom, n)
  /\ n # Body
  /\ IF config.detection = "className" THEN
       Matches(dom, n, config.codeBlockSelector) /\ KeepClassName(dom, n)
     ELSE IF config.detection = "contentBased" THEN
       Matches(dom, n, config.codeBlockSelector) /\ KeepContentBased(dom, n)
     ELSE IF config.detection = "languageLabel" THEN
       Matches(dom, n, config.wrapperSelector) /\ KeepLanguageLabel(dom, n, config)
     ELSE FALSE

\* C33: findUnprocessedMermaidBlocks returns exactly the qualifying elements,
\* each once and in document order, and the empty sequence when no element
\* qualifies.
C33_DocumentOrder ==
  LET found == findUnprocessedMermaidBlocks(dom, config)
      order == Preorder(dom, Body)
  IN /\ \A i \in 1..Len(found) : ToBeFound(found[i])
     /\ \A i, j \in 1..Len(found) :
          i < j => IndexOf(order, found[i]) < IndexOf(order, found[j])
     /\ \A n \in DOMAIN dom : ToBeFound(n) => n \in Range(found)
     /\ (~ \E n \in DOMAIN dom : ToBeFound(n)) => found = <<>>

\* two blocks qualify
C33_Witness ==
  /\ Len(findUnprocessedMermaidBlocks(dom, config)) = 2
  /\ Cardinality({n \in DOMAIN dom : ToBeFound(n)}) = 2

\* the r-th call, a call of renderGrokMermaidBlock, completes in this step
GrokCompletes(r) ==
  /\ tasks[r].fn = "renderGrokMermaidBlock"
  /\ tasks[r].pc = "await"
  /\ tasks'[r].pc = "done"

\* in d, node n is the next sibling of node ref
ImmediatelyAfter(d, ref, n) ==
  /\ d[n].parent # None
  /\ d[n].parent = d[ref].parent
  /\ LET kids == d[d[n].parent].kids
     IN \E i \in 1..(Len(kids) - 1) : kids[i] = ref /\ kids[i + 1] = n

\* C34: when a call of renderGrokMermaidBlock that reached the render
\* completes, its diagram container is hidden and is the next sibling of the
\* <pre> that shows the code, the code element is where it was, and the
\* wrapper is marked and no longer found by the detector.
C34_InPlace ==
  [][\A r \in DOMAIN tasks :
       GrokCompletes(r) =>
         LET wrapper == tasks[r].element
             codeEl == querySelector(dom, wrapper, "pre code")
         IN /\ dom'[GrokDiagram(r)].display = "none"
            /\ IsAttached(dom', GrokDiagram(r))
            /\ ImmediatelyAfter(dom', dom[codeEl].parent, GrokDiagram(r))
            /\ IsAttached(dom', codeEl)
            /\ querySelector(dom', wrapper, "pre code") = codeEl
            /\ ProcessedAttr \in dom'[wrapper].attrs
            /\ wrapper \notin Range(findUnprocessedMermaidBlocks(dom', config))]_vars

\* the grok calls whose click listener is on its preview button
Listening == {r \in DOMAIN tasks : tasks[r].fn = "renderGrokMermaidBlock" /\ tasks[r].pc = "done"}

\* C35: a call of toggleGrokDiagram with a code container leaves exactly one
\* of the diagram container and the code container visible and changes
\* nothing else; it always flips the diagram container and, from a state
\* where exactly one of the two is visible, the code container as well, and
\* a second call then restores the visibility of both.  With a null code
\* container the call flips the diagram container and changes nothing else.
C35_PreviewToggle ==
  \A r \in Listening :
    LET g == GrokDiagram(r)
        c == ListenerCodeContainer(dom, r)
        once == toggleGrokDiagram(dom, g, c)
        twice == toggleGrokDiagram(once, g, c)
    IN /\ Visible(once, g) # Visible(dom, g)
       /\ Visible(twice, g) = Visible(dom, g)
       /\ \A n \in DOMAIN dom : n \notin {g, c} => once[n] = dom[n]
       /\ \A n \in {g, c} \ {None} : [once[n] EXCEPT !.display = ""] = [dom[n] EXCEPT !.display = ""]
       /\ c # None =>
            /\ Visible(once, g) # Visible(once, c)
            /\ (Visible(dom, g) # Visible(dom, c)) =>
                 /\ Visible(once, c) # Visible(dom, c)
                 /\ Visible(twice, c) = Visible(dom, c)

\* a listener has shown its diagram and hidden the code beside it, and the
\* listener of a block without code container has shown its diagram
C35_Witness ==
  \E r, q \in Listening :
    /\ ListenerCodeContainer(dom, r) # None
    /\ Visible(dom, GrokDiagram(r))
    /\ ~Visible(dom, ListenerCodeContainer(dom, r))
    /\ ListenerCodeContainer(dom, q) = None
    /\ Visible(dom, GrokDiagram(q))

RECURSIVE Clicks(_, _, _)
\* the document after k clicks on the toggle of artifact r
Clicks(d, r, k) == IF k = 0 THEN d ELSE toggleClick(Clicks(d, r, k - 1), r)

\* what the toggle of artifact r shows in d
Regions(d, r) == <<Visible(d, SourceWrapper(r)), Visible(d, RenderedDiv(r))>>
Face(d, r) == <<d[ToggleBtn(r)].html, d[ToggleBtn(r)].title>>

\* the artifacts of the document whose toggle can be clicked
Clickable == {r \in DOMAIN tasks : ToggleBtn(r) \in DOMAIN dom /\ IsAttached(dom, ToggleBtn(r))}

\* C36 (as amended): after k clicks the source region is visible exactly when
\* its visibility before them differs from k being odd, and the title is
\* 'Show diagram' exactly when the source region is visible; two clicks
\* restore the label and the title, the visibility of the source region and,
\* unless both regions were visible before them (a failed render never
\* clicked), the visibility of the display region.
C36_ClickRoundTrip ==
  \A r \in Clickable : \A k \in 0..MaxClicks :
    LET before == Clicks(dom, r, k)
        after == Clicks(before, r, 2)
    IN /\ Visible(before, SourceWrapper(r)) <=> (Visible(dom, SourceWrapper(r)) # (k % 2 = 1))
       /\ (before[ToggleBtn(r)].title = "Show diagram") <=> Visible(before, SourceWrapper(r))
       /\ Face(after, r) = Face(before, r)
       /\ Regions(after, r)[1] = Regions(before, r)[1]
       /\ (Regions(before, r) # <<TRUE, TRUE>>) => Regions(after, r) = Regions(before, r)
       /\ (Regions(before, r) = <<TRUE, TRUE>>) =>
            (k = 0 /\ tasks[r].hasError /\ Regions(after, r) = <<TRUE, FALSE>>)

\* the toggle of a failed render has been clicked twice or more: it shows the
\* source alone
C36_Witness ==
  \E r \in Clickable :
    /\ tasks[r].hasError
    /\ Regions(dom, r) = <<TRUE, FALSE>>
    /\ Face(dom, r) = <<<<"play">>, "Show diagram">>

\* C36 as stated: for either initial state two clicks return the visibility
\* of both regions, the label and the title to what they were
C36_Original ==
  \A r \in Clickable :
    /\ Regions(Clicks(dom, r, 2), r) = Regions(dom, r)
    /\ Face(Clicks(dom, r, 2), r) = Face(dom, r)

\* the nodes the page itself puts in the document
PageNodes == {n \in DOMAIN dom : n[1] \in {"body", "head", "pre", "code", "wrapper", "label", "button"}}

\* main returned without a sweep, an observer, a render id or a frame request
NothingStarted ==
  /\ ~started /\ ~observing /\ config = NoConfig
  /\ renderCounter = 0 /\ tasks = <<>> /\ timers = {}
  /\ rafQueue = 0 /\ frameBatch = 0

\* C37 (as amended): after a failed load main has returned with no sweep run,
\* no observer subscribed and no RenderId allocated, and the body holds only
\* what the page put there; the one change to the document is the script
\* element that the loader appended to the head, which stays there.
C37_LoadFailure ==
  (mainPc = "loadFailed") =>
    /\ NothingStarted
    /\ \A n \in Range(Preorder(dom, Body)) : n \in PageNodes
    /\ DOMAIN dom \ PageNodes = {LoaderScript}
    /\ dom[DocHead].kids = <<LoaderScript>>
    /\ dom[LoaderScript].parent = DocHead

\* the load failed on a page that shows a diagram block
C37_Witness ==
  /\ mainPc = "loadFailed"
  /\ mainPlatform \in {"chatgpt", "claude", "gemini"}
  /\ findUnprocessedMermaidBlocks(dom, getPlatformConfig(mainPlatform)) # <<>>

\* C37 as stated: after a failed load nothing was started and the document
\* holds only what the page put there
C37_Original ==
  (mainPc = "loadFailed") => (NothingStarted /\ DOMAIN dom = PageNodes)

====
